---- MODULE Spec2Model ----
(***************************************************************************)
(* Client-side connection and debate protocol state machine of             *)
(* frontend/script.js, as run on the debate page: the appState object, the *)
(* WebSocket transports created by connectWebSocket and by the debug       *)
(* buttons, the setTimeout/setInterval callbacks the handlers schedule,    *)
(* the inbound frame dispatcher and the turn presentation in the DOM.      *)
(***************************************************************************)
EXTENDS Integers, Sequences, FiniteSets, TLC

(* ---- bounds of the model ---- *)
MaxClicks == 1       \* debug-button clicks that create a transport
MaxUserId == 1       \* user ids the server can put in a frame: 1..MaxUserId
MaxTextLen == 2      \* length of the text typed into argumentInput
MaxTurnLog == 3      \* turn events remembered by the history variable turnLog
MaxDebateId == 2     \* debate ids a match_found frame can carry: 1..MaxDebateId
MaxMatches == 2      \* match_found events remembered by the history variable matchLog
MaxRemaining == 5    \* remaining_seconds of a timer event, in minutes: -1..MaxRemaining - 1
MaxLogLen == 2       \* entries of #debateLog

(* ---- program constants ---- *)
maxReconnectAttempts == 5
PrepTotal == 180     \* totalTime of handlePrepTimer, in seconds
TurnTotal == 120     \* totalTime of handleTurnTimer, in seconds

Slots == 1..(MaxClicks + 1)
UserIds == 1..MaxUserId
\* the id of the account authenticateTestUser logs into: one account, one id
TestUserIds == {MaxUserId}
DebateIds == {1}
Topics == {"T"}
Sides == {"Proposition", "Negation"}
Null == [id |-> 0]

Chars == {"sp", "a"}
Texts == UNION {[1..n -> Chars] : n \in 0..MaxTextLen}

NoFrame == [type |-> "none"]
NoSubmit == <<"none">>

\* text a form field can hold ("" is the empty field)
FieldValues == {"", "a", "b"}
CreateForms == [username : FieldValues, password : FieldValues, confirmPassword : FieldValues]
CreateFields == {"username", "password", "confirmPassword"}
EmptyForm == [username |-> "", password |-> "", confirmPassword |-> ""]
NoMessage == [kind |-> "none"]
NoTicks == [sent |-> FALSE, skipped |-> FALSE, cleared |-> FALSE]
NoBar == [num |-> 0, den |-> 0]
NoTimer == [kind |-> "none", before |-> << >>]
NoQuiet == [undecodable |-> -1, pong |-> FALSE, unknown |-> FALSE, error |-> FALSE]
FreeSocket == [st |-> "none", kind |-> "none"]

\* the pages whose initialiser calls connectWebSocket
ConnectedPages == {"login", "matchmaking", "debate"}

ConnectionStates ==
    {"disconnected", "connecting", "connected", "authenticating",
     "authenticated", "waiting_opponent", "ready"}

VARIABLES
    page,                  \* "loading" | "login" | "matchmaking" | "debate" | "end"
    sockets,               \* slot -> [st, kind]: the WebSocket objects that can still fire events
    websocket,             \* appState.websocket: a slot, or 0 for null
    reconnectAttempts,     \* appState.reconnectAttempts
    isConnected,           \* appState.isConnected
    isAuthenticated,       \* appState.isAuthenticated
    currentUserId,         \* appState.currentUserId (0 = null)
    currentUser,           \* appState.currentUser (Null or [id, username, mmr, user_class])
    currentDebate,         \* appState.currentDebate (Null or the context object)
    connectionState,       \* appState.connectionState
    reconnectTimers,       \* pending setTimeout(connectWebSocket, reconnectDelay) callbacks
    authTimer,             \* some setTimeout(authenticateTestUser, 500) is pending
    startDebateTimer,      \* some setTimeout(startDebateProcess, 1000) is pending
    manualStartTimer,      \* user ids of pending start_debate timeouts of the manual transport
    redirectTimer,         \* the setTimeout that leaves for end.html is pending
    loginRedirectTimer,    \* the setTimeout of handleAuthResponse that leaves for matchmaking.html is pending
    proceedTimer,          \* the setTimeout(proceedToDebate, 3000) of handleMatchFound is pending
    autoPingInterval,      \* the heartbeat interval is set (non-null)
    pingIntervals,         \* number of intervals made by startAutoPing and not cleared since
    localStorage,          \* [debateUser, currentDebate, finalDebateData]
    timerLabel,            \* text of #timerLabel: "initial" | "prep" | "your" | "opp"
    argumentInputContainer,\* TRUE iff #argumentInputContainer is shown
    waitingMessage,        \* TRUE iff #waitingMessage is shown
    argumentInput,         \* value of #argumentInput
    lastFrame,             \* frame put on the wire by the last step (NoFrame if none)
    debugClicks,           \* debug clicks that created a transport so far
    closesSinceOpen,       \* history: runs of handleWebSocketClose since the last open event
    scheduledSinceOpen,    \* history: reconnects scheduled since the last open event
    turnLog,               \* history: the first MaxTurnLog turn events, with the owner and input shown after each
    heartbeatLog,          \* history: [sent, skipped, cleared]: since startAutoPing last ran, some interval tick sent a ping_ready / sent nothing; cleared: when it ran, it cleared the interval set for another context
    submittedThisTurn,     \* history: a debate_message was sent since the last your_turn event
    createForm,            \* values of #createUsername, #createPassword, #confirmPassword
    lobbyDom,              \* [statusContainer, matchFoundContainer]: TRUE iff the element is shown
    matchLog,              \* history: debate ids of the first MaxMatches match_found events handled since the page was loaded
    lastMessage,           \* message shown by showMessage in the last step (NoMessage if none)
    debatePhase,           \* text of #debatePhase
    debateLog,             \* the user and opponent entries of #debateLog, oldest first (system lines are not kept)
    timerBar,              \* width of #timerBar: NoBar, or the fraction [num, den] it was last set to
    timerLog,              \* history: the kind and the remaining_seconds of the last timer event that set #timerBar, and the remaining_seconds of the one before it when of the same kind
    quietLog,              \* history, since the page was loaded: [undecodable, pong, unknown, error]: whether a pong, a frame of unknown type or a transport error event arrived, and the number of turn events logged when the last undecodable frame arrived (-1 if none did)
    lastSubmit             \* history: value of #argumentInput read by submitArgument in the last step (NoSubmit if it did not run)

connVars == <<sockets, websocket, reconnectAttempts, isConnected, connectionState, reconnectTimers>>
authVars == <<isAuthenticated, currentUserId, currentUser, localStorage>>
debateVars == <<currentDebate, autoPingInterval, pingIntervals>>
domVars == <<timerLabel, argumentInputContainer, waitingMessage, argumentInput>>
lobbyTimers == <<loginRedirectTimer, proceedTimer>>
timerVars == <<authTimer, startDebateTimer, manualStartTimer, redirectTimer, lobbyTimers>>
histVars == <<closesSinceOpen, scheduledSinceOpen, turnLog, submittedThisTurn, heartbeatLog>>
lobbyVars == <<createForm, lobbyDom, matchLog>>
timerDom == <<timerBar, timerLog>>
logVars == <<debatePhase, debateLog, quietLog, timerDom>>
vars == <<page, connVars, authVars, debateVars, domVars, timerVars, histVars,
          lastFrame, debugClicks, lastSubmit, lastMessage, lobbyVars, logVars>>

(* ---- pure helpers ---- *)

\* String.prototype.trim on the typed text: drop leading and trailing whitespace
RECURSIVE TrimLeft(_)
TrimLeft(t) == IF t # <<>> /\ Head(t) = "sp" THEN TrimLeft(Tail(t)) ELSE t

RECURSIVE TrimRight(_)
TrimRight(t) ==
    IF t # <<>> /\ t[Len(t)] = "sp" THEN TrimRight(SubSeq(t, 1, Len(t) - 1)) ELSE t

TrimLeadingOnly(t) == TrimLeft(t)
Trim(t) == TrimRight(TrimLeft(t))

\* the owner the turn label names
Owner(label) ==
    IF label = "your" THEN "self" ELSE IF label = "opp" THEN "opponent" ELSE "none"

\* the retry test of handleWebSocketClose
CanRetryOffByOne(attempts) == attempts <= maxReconnectAttempts
CanRetry(attempts) == attempts < maxReconnectAttempts

\* sendWebSocketMessage: the frame goes out iff a transport is held and it is OPEN
SendOnAnyTransport(socks, ws, frame) == IF ws # 0 THEN frame ELSE NoFrame
SendOn(socks, ws, frame) ==
    IF ws # 0 /\ socks[ws].st = "OPEN" THEN frame ELSE NoFrame

\* showMessage(text, 'error'), showMessage(text, 'success')
ErrorMessage(text) == [kind |-> "error", text |-> text]
SuccessMessage(text) == [kind |-> "success", text |-> text]

\* the message sendWebSocketMessage shows when it does not send
SendFailure(socks, ws) ==
    IF ws # 0 /\ socks[ws].st = "OPEN" THEN NoMessage
    ELSE ErrorMessage("Not connected to server")

\* the value sendWebSocketMessage returns
SendReturns(socks, ws) == IF ws # 0 /\ socks[ws].st = "OPEN" THEN TRUE ELSE FALSE

\* A WebSocket object that is CLOSED has fired its last event; once appState.websocket
\* no longer refers to it, it is garbage.
Collect(socks, ws) ==
    [i \in Slots |-> IF socks[i].st = "CLOSED" /\ i # ws THEN FreeSocket ELSE socks[i]]

HasFreeSlot(socks) == \E i \in Slots : socks[i].st = "none"
FirstFreeSlot(socks) ==
    CHOOSE i \in Slots : socks[i].st = "none" /\ \A j \in Slots : j < i => socks[j].st # "none"

LiveSockets == {i \in Slots : sockets[i].st \in {"CONNECTING", "OPEN", "CLOSING"}}

(* ---- initial state: the appState literal, page not yet initialised ---- *)

\* The markup of debate.html: the session starts with no turn shown, the argument input
\* and the waiting indicator hidden and the input empty.
InitDom ==
    /\ timerLabel = "initial"
    /\ argumentInputContainer = FALSE
    /\ waitingMessage = FALSE
    /\ argumentInput = <<>>
    /\ debatePhase = "initial"
    /\ debateLog = <<>>
    /\ quietLog = NoQuiet
    /\ timerBar = NoBar
    /\ timerLog = NoTimer

\* The markup of matchmaking.html: the status and match-found containers start hidden.
InitLobbyDom == [statusContainer |-> FALSE, matchFoundContainer |-> FALSE]

Init ==
    /\ page = "loading"
    /\ sockets = [i \in Slots |-> FreeSocket]
    /\ websocket = 0
    /\ reconnectAttempts = 0
    /\ isConnected = FALSE
    /\ isAuthenticated = FALSE
    /\ currentUserId = 0
    /\ currentUser = Null
    /\ currentDebate = Null
    /\ connectionState = "disconnected"
    /\ reconnectTimers = 0
    /\ authTimer = FALSE
    /\ startDebateTimer = FALSE
    /\ manualStartTimer = {}
    /\ redirectTimer = FALSE
    /\ loginRedirectTimer = FALSE
    /\ proceedTimer = FALSE
    /\ autoPingInterval = FALSE
    /\ pingIntervals = 0
    /\ localStorage = [debateUser |-> Null, currentDebate |-> Null,
                       finalDebateData |-> FALSE]
    /\ InitDom
    /\ lastFrame = NoFrame
    /\ debugClicks = 0
    /\ closesSinceOpen = 0
    /\ scheduledSinceOpen = 0
    /\ turnLog = <<>>
    /\ submittedThisTurn = FALSE
    /\ heartbeatLog = NoTicks
    /\ lastSubmit = NoSubmit
    /\ lastMessage = NoMessage
    /\ createForm = EmptyForm
    /\ lobbyDom = InitLobbyDom
    /\ matchLog = <<>>


(* ---- Connection Manager ---- *)

\* setConnectionState: the only writer of appState.connectionState
SetConnectionState(newState) == connectionState' = newState

\* connectWebSocket; ok is whether the WebSocket constructor returns (it can throw)
ConnectWebSocketStaysConnecting(ok) ==
    IF ok
    THEN LET base == Collect(sockets, 0)
             slot == FirstFreeSlot(base)
         IN /\ HasFreeSlot(base)
            /\ sockets' = [base EXCEPT ![slot] = [st |-> "CONNECTING", kind |-> "std"]]
            /\ websocket' = slot
            /\ SetConnectionState("connecting")
    ELSE /\ SetConnectionState("connecting")
         /\ UNCHANGED <<sockets, websocket>>
ConnectWebSocket(ok) ==
    IF ok
    THEN LET base == Collect(sockets, 0)
             slot == FirstFreeSlot(base)
         IN /\ HasFreeSlot(base)
            /\ sockets' = [base EXCEPT ![slot] = [st |-> "CONNECTING", kind |-> "std"]]
            /\ websocket' = slot
            /\ SetConnectionState("connecting")
    ELSE /\ SetConnectionState("disconnected")
         /\ UNCHANGED <<sockets, websocket>>

\* handleWebSocketOpen
HandleWebSocketOpen ==
    /\ isConnected' = TRUE
    /\ reconnectAttempts' = 0
    /\ SetConnectionState("connected")
    /\ authTimer' = TRUE

\* handleWebSocketClose
HandleWebSocketClose ==
    /\ isConnected' = FALSE
    /\ closesSinceOpen' = closesSinceOpen + 1
    /\ IF CanRetry(reconnectAttempts)
       THEN /\ reconnectAttempts' = reconnectAttempts + 1
            /\ reconnectTimers' = reconnectTimers + 1
            /\ scheduledSinceOpen' = scheduledSinceOpen + 1
       ELSE UNCHANGED <<reconnectAttempts, reconnectTimers, scheduledSinceOpen>>

AuthenticateFrame == [type |-> "authenticate"]
StartDebateFrame(uid, did) == [type |-> "start_debate", user_id |-> uid, debate_id |-> did]
PingReadyFrame(uid, did) == [type |-> "ping_ready", user_id |-> uid, debate_id |-> did]
DebateMessageFrame(uid, content) ==
    [type |-> "debate_message", user_id |-> uid, content |-> content]

\* DOMContentLoaded on debate.html: initializeDebatePage
InitializeDebatePage ==
    /\ page = "loading"
    /\ page' = "debate"
    /\ \E ok \in BOOLEAN : ConnectWebSocket(ok)
    /\ lastFrame' = NoFrame
    /\ UNCHANGED <<reconnectAttempts, isConnected, reconnectTimers, authVars, debateVars,
                   domVars, timerVars, histVars, debugClicks>>
    /\ lastSubmit' = NoSubmit
    /\ UNCHANGED lobbyVars
    /\ UNCHANGED logVars
    /\ lastMessage' = NoMessage

\* the open event of transport s: handleWebSocketOpen, or the manual transport's onopen,
\* which only sends authenticate through appState.websocket
SocketOpen(s) ==
    /\ page \in ConnectedPages
    /\ sockets[s].st = "CONNECTING"
    /\ sockets' = [sockets EXCEPT ![s].st = "OPEN"]
    /\ closesSinceOpen' = 0
    /\ scheduledSinceOpen' = 0
    /\ IF sockets[s].kind = "std"
       THEN /\ HandleWebSocketOpen
            /\ lastFrame' = NoFrame
       ELSE /\ lastFrame' = SendOn(sockets', websocket, AuthenticateFrame)
            /\ UNCHANGED <<isConnected, reconnectAttempts, connectionState, authTimer>>
    /\ UNCHANGED <<page, websocket, reconnectTimers, authVars, debateVars, domVars,
                   startDebateTimer, manualStartTimer, redirectTimer, lobbyTimers, turnLog,
                   submittedThisTurn,
                   heartbeatLog, debugClicks>>
    /\ lastSubmit' = NoSubmit
    /\ UNCHANGED lobbyVars
    /\ UNCHANGED logVars
    /\ lastMessage' = NoMessage

\* the closing handshake of an open transport starts: readyState becomes CLOSING
SocketClosing(s) ==
    /\ page \in ConnectedPages
    /\ sockets[s].st = "OPEN"
    /\ sockets' = [sockets EXCEPT ![s].st = "CLOSING"]
    /\ lastFrame' = NoFrame
    /\ UNCHANGED <<page, websocket, reconnectAttempts, isConnected, connectionState,
                   reconnectTimers, authVars, debateVars, domVars, timerVars, histVars,
                   debugClicks>>
    /\ lastSubmit' = NoSubmit
    /\ UNCHANGED lobbyVars
    /\ UNCHANGED logVars
    /\ lastMessage' = NoMessage

\* the close event of transport s (a failed connection attempt or the end of an
\* established one): handleWebSocketClose, or the manual transport's onclose
SocketClose(s) ==
    /\ page \in ConnectedPages
    /\ sockets[s].st \in {"CONNECTING", "OPEN", "CLOSING"}
    /\ sockets' = Collect([sockets EXCEPT ![s].st = "CLOSED"], websocket)
    /\ lastFrame' = NoFrame
    /\ IF sockets[s].kind = "std"
       THEN /\ HandleWebSocketClose
            /\ UNCHANGED <<isAuthenticated, currentUserId>>
       ELSE /\ isAuthenticated' = FALSE
            /\ currentUserId' = 0
            /\ UNCHANGED <<isConnected, reconnectAttempts, reconnectTimers,
                           closesSinceOpen, scheduledSinceOpen>>
    /\ UNCHANGED <<page, websocket, connectionState, currentUser, localStorage, debateVars,
                   domVars, timerVars, turnLog, submittedThisTurn, heartbeatLog,
                   debugClicks>>
    /\ lastSubmit' = NoSubmit
    /\ UNCHANGED lobbyVars
    /\ UNCHANGED logVars
    /\ lastMessage' = IF sockets[s].kind = "std" /\ ~CanRetry(reconnectAttempts)
                      THEN ErrorMessage("Connection lost. Please refresh the page.")
                      ELSE NoMessage

\* the reconnect timeout set by handleWebSocketClose fires: connectWebSocket()
ReconnectTimerFire ==
    /\ page \in ConnectedPages
    /\ reconnectTimers > 0
    /\ reconnectTimers' = reconnectTimers - 1
    /\ \E ok \in BOOLEAN : ConnectWebSocket(ok)
    /\ lastFrame' = NoFrame
    /\ UNCHANGED <<page, reconnectAttempts, isConnected, authVars, debateVars, domVars,
                   timerVars, histVars, debugClicks>>
    /\ lastSubmit' = NoSubmit
    /\ UNCHANGED lobbyVars
    /\ UNCHANGED logVars
    /\ lastMessage' = NoMessage

\* the timeout set by handleWebSocketOpen fires: authenticateTestUser(). The flag stands
\* for one or more pending timeouts, so it may stay set.
AuthTimerFire ==
    /\ page \in ConnectedPages
    /\ authTimer
    /\ authTimer' \in BOOLEAN
    /\ lastFrame' = SendOn(sockets, websocket, AuthenticateFrame)
    /\ UNCHANGED <<page, connVars, authVars, debateVars, domVars, startDebateTimer,
                   manualStartTimer, redirectTimer, lobbyTimers, histVars, debugClicks>>
    /\ lastSubmit' = NoSubmit
    /\ UNCHANGED lobbyVars
    /\ UNCHANGED logVars
    /\ lastMessage' = SendFailure(sockets, websocket)

\* the timeout set by handleAuthResponse fires: startDebateProcess()
StartDebateTimerFire ==
    /\ page = "debate"
    /\ startDebateTimer
    /\ startDebateTimer' \in BOOLEAN
    /\ lastFrame' = IF currentUserId = 0 THEN NoFrame
                    ELSE SendOn(sockets, websocket, StartDebateFrame(currentUserId, 1))
    /\ UNCHANGED <<page, connVars, authVars, debateVars, domVars, authTimer,
                   manualStartTimer, redirectTimer, lobbyTimers, histVars, debugClicks>>
    /\ lastSubmit' = NoSubmit
    /\ UNCHANGED lobbyVars
    /\ UNCHANGED logVars
    /\ lastMessage' = IF currentUserId = 0 THEN NoMessage ELSE SendFailure(sockets, websocket)

\* the start_debate timeout of the manual transport's onmessage fires; it sends through
\* appState.websocket with the user id of the auth_response it was created for
ManualStartTimerFire(uid) ==
    /\ page = "debate"
    /\ uid \in manualStartTimer
    /\ manualStartTimer' \in {manualStartTimer, manualStartTimer \ {uid}}
    /\ lastFrame' = SendOn(sockets, websocket, StartDebateFrame(uid, 1))
    /\ UNCHANGED <<page, connVars, authVars, debateVars, domVars, authTimer,
                   startDebateTimer, redirectTimer, lobbyTimers, histVars, debugClicks>>
    /\ lastSubmit' = NoSubmit
    /\ UNCHANGED lobbyVars
    /\ UNCHANGED logVars
    /\ lastMessage' = NoMessage


(* ---- Auth Session ---- *)

\* an auth_response frame: user_class may be missing (Undefined)
Undefined == -1
Usernames == {"test", "alice"}
Mmrs == {1000}
UserClasses == {Undefined, 0, 1}
Errors == {"Invalid username or password", "Server error"}
AuthResponses ==
    [success : BOOLEAN, user_id : UserIds, username : Usernames, mmr : Mmrs,
     user_class : UserClasses, error : Errors]

\* the answer to the authenticate frame of authenticateTestUser
TestUserResponse(success, uid) ==
    [success |-> success, user_id |-> uid, username |-> "test", mmr |-> 1000,
     user_class |-> Undefined, error |-> "Invalid username or password"]

\* data.user_class || 0
OrZeroKeeps(v) == v
OrZero(v) == IF v = Undefined \/ v = 0 THEN 0 ELSE v

\* handleAuthResponse
HandleAuthResponseClears(data) ==
    IF data.success
    THEN /\ currentUser' = [id |-> data.user_id, username |-> data.username,
                            mmr |-> data.mmr, user_class |-> OrZero(data.user_class)]
         /\ isAuthenticated' = TRUE
         /\ currentUserId' = data.user_id
         /\ localStorage' = [localStorage EXCEPT !.debateUser = currentUser']
         /\ SetConnectionState("authenticated")
         /\ IF page = "debate"
            THEN /\ startDebateTimer' = TRUE
                 /\ lastMessage' = NoMessage
                 /\ UNCHANGED loginRedirectTimer
            ELSE /\ loginRedirectTimer' = TRUE
                 /\ lastMessage' = SuccessMessage("Login successful!")
                 /\ UNCHANGED startDebateTimer
    ELSE /\ currentUser' = Null
         /\ isAuthenticated' = FALSE
         /\ currentUserId' = 0
         /\ SetConnectionState("disconnected")
         /\ lastMessage' = ErrorMessage(data.error)
         /\ UNCHANGED <<localStorage, startDebateTimer, loginRedirectTimer>>
HandleAuthResponse(data) ==
    IF data.success
    THEN /\ currentUser' = [id |-> data.user_id, username |-> data.username,
                            mmr |-> data.mmr, user_class |-> OrZero(data.user_class)]
         /\ isAuthenticated' = TRUE
         /\ currentUserId' = data.user_id
         /\ localStorage' = [localStorage EXCEPT !.debateUser = currentUser']
         /\ SetConnectionState("authenticated")
         /\ IF page = "debate"
            THEN /\ startDebateTimer' = TRUE
                 /\ lastMessage' = NoMessage
                 /\ UNCHANGED loginRedirectTimer
            ELSE /\ loginRedirectTimer' = TRUE
                 /\ lastMessage' = SuccessMessage("Login successful!")
                 /\ UNCHANGED startDebateTimer
    ELSE /\ SetConnectionState("disconnected")
         /\ lastMessage' = ErrorMessage(data.error)
         /\ UNCHANGED <<currentUser, isAuthenticated, currentUserId, localStorage,
                        startDebateTimer, loginRedirectTimer>>

(* ---- Readiness Heartbeat ---- *)

\* sendPingReady, given the context and user id it reads
SendPingReadyMessage(debate, uid) ==
    IF debate = Null \/ uid = 0 THEN NoMessage ELSE SendFailure(sockets, websocket)
SendPingReadyUnguarded(debate, uid) ==
    SendOn(sockets, websocket, PingReadyFrame(uid, debate.id))
SendPingReady(debate, uid) ==
    IF debate = Null \/ uid = 0
    THEN NoFrame
    ELSE SendOn(sockets, websocket, PingReadyFrame(uid, debate.id))

(* ---- Debate Session ---- *)

\* the debate_initialized and debate_started events of the server
DebateInitializedEvents ==
    [debate_id : DebateIds, topic : Topics, your_side : Sides, opponent_side : Sides,
     prep_time_minutes : {3}]
DebateStartedEvents == [your_side : Sides, opponent_side : Sides]

\* the events of the debate the test user is given: the topic and sides are those of
\* the debug start button
TestDebateInitialized(did) ==
    [debate_id |-> did, topic |-> "T", your_side |-> "Proposition",
     opponent_side |-> "Negation", prep_time_minutes |-> 3]
TestDebateStarted == [your_side |-> "Proposition", opponent_side |-> "Negation"]

\* obj.k = v for every field k of upd: a property the object lacks is added
Assign(obj, upd) ==
    [k \in DOMAIN obj \cup DOMAIN upd |-> IF k \in DOMAIN upd THEN upd[k] ELSE obj[k]]

\* stopAutoPing: clearInterval on the interval held in autoPingInterval, if any
AfterStop == IF autoPingInterval THEN pingIntervals - 1 ELSE pingIntervals
StopAutoPing ==
    /\ autoPingInterval' = FALSE
    /\ pingIntervals' = AfterStop

\* startAutoPing runs for a new context while the interval of another one is set
ClearsOther == autoPingInterval /\ currentDebate # Null /\ currentDebate' # currentDebate

\* startAutoPing: stopAutoPing, then setInterval (the sendPingReady between them is part
\* of the handler that calls it)
StartAutoPingNoStop ==
    /\ autoPingInterval' = TRUE
    /\ pingIntervals' = pingIntervals + 1
    /\ heartbeatLog' = [NoTicks EXCEPT !.cleared = ClearsOther]
StartAutoPing ==
    /\ autoPingInterval' = TRUE
    /\ pingIntervals' = AfterStop + 1
    /\ heartbeatLog' = [NoTicks EXCEPT !.cleared = ClearsOther]

\* the context handleDebateInitialized builds
InitializedContextInPreparation(data) ==
    [id |-> data.debate_id, topic |-> data.topic, yourSide |-> data.your_side,
     opponentSide |-> data.opponent_side, prepTime |-> data.prep_time_minutes,
     phase |-> "preparation"]
InitializedContext(data) ==
    [id |-> data.debate_id, topic |-> data.topic, yourSide |-> data.your_side,
     opponentSide |-> data.opponent_side, prepTime |-> data.prep_time_minutes,
     phase |-> "waiting_for_opponent"]

\* handleDebateInitialized: store the context, setConnectionState('authenticated'),
\* startAutoPing (stop, ping once, set the interval)
HandleDebateInitializedNoPing(data) ==
    /\ currentDebate' = InitializedContext(data)
    /\ SetConnectionState("authenticated")
    /\ lastFrame' = NoFrame
    /\ lastMessage' = NoMessage
    /\ StartAutoPing
HandleDebateInitialized(data) ==
    /\ currentDebate' = InitializedContext(data)
    /\ SetConnectionState("authenticated")
    /\ lastFrame' = SendPingReady(currentDebate', currentUserId)
    /\ lastMessage' = SendPingReadyMessage(currentDebate', currentUserId)
    /\ StartAutoPing

\* setElementText('debatePhase', text): #debatePhase is an element of debate.html
SetDebatePhase(text) == debatePhase' = IF page = "debate" THEN text ELSE debatePhase

\* what handleDebateStarted writes into an existing context
StartedFields(data) ==
    [yourSide |-> data.your_side, opponentSide |-> data.opponent_side,
     phase |-> "preparation"]

\* handleDebateStarted: setConnectionState('ready'), record the sides and the phase in
\* the context if there is one, set the phase label, stopAutoPing
HandleDebateStartedInitializedOnly(data) ==
    /\ SetConnectionState("ready")
    /\ currentDebate' = IF currentDebate # Null /\ "phase" \in DOMAIN currentDebate
                        THEN Assign(currentDebate, StartedFields(data))
                        ELSE currentDebate
    /\ SetDebatePhase("Preparation")
    /\ StopAutoPing
HandleDebateStarted(data) ==
    /\ SetConnectionState("ready")
    /\ currentDebate' = IF currentDebate # Null
                        THEN Assign(currentDebate, StartedFields(data))
                        ELSE currentDebate
    /\ SetDebatePhase("Preparation")
    /\ StopAutoPing

\* handlePrepTimer for a prep_timer_start frame
HandlePrepTimerStart == timerLabel' = "prep"

(* ---- Timer Reflector ---- *)

\* the timer events of the server: remaining_seconds can be missing, negative or above
\* the total; display can be missing or empty
RemainingValues == {60 * m : m \in -1..(MaxRemaining - 1)} \cup {Undefined}
Displays == {"", "mm:ss"}
PrepTimerEvents ==
    [type : {"prep_timer_start", "prep_timer"}, display : Displays,
     remaining_seconds : RemainingValues]
TurnTimerEvents ==
    [type : {"turn_timer"}, display : Displays, remaining_seconds : RemainingValues]

\* progress = ((totalTime - remaining) / totalTime) * 100, kept as the exact fraction
ProgressOfRemaining(totalTime, remaining) == [num |-> remaining, den |-> totalTime]
Progress(totalTime, remaining) == [num |-> totalTime - remaining, den |-> totalTime]

\* the part of handlePrepTimer and handleTurnTimer under 'if (data.display)': the bar of
\* debate.html is set from data.remaining_seconds || 0
SetTimerBar(kind, totalTime, data) ==
    IF data.display # "" /\ page = "debate"
    THEN /\ timerBar' = Progress(totalTime, OrZero(data.remaining_seconds))
         /\ timerLog' = [kind |-> kind, remaining |-> data.remaining_seconds,
                          before |-> IF timerLog.kind = kind
                                     THEN <<timerLog.remaining>> ELSE << >>]
    ELSE UNCHANGED <<timerBar, timerLog>>

\* handlePrepTimer
HandlePrepTimer(data) ==
    /\ timerLabel' = IF data.type = "prep_timer_start" THEN "prep" ELSE timerLabel
    /\ SetTimerBar("prep", PrepTotal, data)

\* handleTurnTimer
HandleTurnTimerPrepTotal(data) == SetTimerBar("turn", PrepTotal, data)
HandleTurnTimer(data) == SetTimerBar("turn", TurnTotal, data)

\* handleYourTurn
HandleYourTurnKeepsWaiting ==
    /\ timerLabel' = "your"
    /\ argumentInputContainer' = TRUE
    /\ UNCHANGED waitingMessage
HandleYourTurnWrongLabel ==
    /\ timerLabel' = "opp"
    /\ argumentInputContainer' = TRUE
    /\ waitingMessage' = FALSE
HandleYourTurn ==
    /\ timerLabel' = "your"
    /\ argumentInputContainer' = TRUE
    /\ waitingMessage' = FALSE

\* handleOpponentTurn
HandleOpponentTurn ==
    /\ timerLabel' = "opp"
    /\ argumentInputContainer' = FALSE
    /\ waitingMessage' = TRUE

\* handleDebateEnded: set the phase label, persist the transcript, schedule the move
\* to end.html
HandleDebateEnded ==
    /\ SetDebatePhase("Finished")
    /\ localStorage' = [localStorage EXCEPT !.finalDebateData = TRUE]
    /\ redirectTimer' = TRUE

\* history of the turn events dispatched: the event, and the owner named by the label
\* and the visibility of the argument input right after its handler
LogTurn(ev) ==
    turnLog' = IF Len(turnLog) < MaxTurnLog
               THEN Append(turnLog, [ev |-> ev, owner |-> Owner(timerLabel'),
                                     input |-> argumentInputContainer'])
               ELSE turnLog

(* ---- Protocol Dispatcher: one action per inbound frame type, on transport s ---- *)
(* A transport created by connectWebSocket runs handleWebSocketMessage; the manual    *)
(* transport's onmessage treats auth_response and debate_started itself and then      *)
(* passes every frame on to handleWebSocketMessage.                                   *)

Receiving(s) == page \in ConnectedPages /\ sockets[s].st = "OPEN"

MsgAuthResponseFrame(s, data) ==
    /\ Receiving(s)
    /\ HandleAuthResponse(data)
    /\ manualStartTimer' = IF sockets[s].kind = "manual" /\ data.success
                           THEN manualStartTimer \cup {data.user_id}
                           ELSE manualStartTimer
    /\ lastFrame' = NoFrame
    /\ UNCHANGED <<page, sockets, websocket, reconnectAttempts, isConnected,
                   reconnectTimers, debateVars, domVars, authTimer, redirectTimer,
                   proceedTimer, histVars, debugClicks>>
    /\ lastSubmit' = NoSubmit
    /\ UNCHANGED lobbyVars
    /\ UNCHANGED logVars

\* the auth_response that answers authenticateTestUser
MsgAuthResponse(s, success, uid) == MsgAuthResponseFrame(s, TestUserResponse(success, uid))

MsgDebateInitializedFrame(s, data) ==
    /\ Receiving(s)
    /\ HandleDebateInitialized(data)
    /\ UNCHANGED <<page, sockets, websocket, reconnectAttempts, isConnected,
                   reconnectTimers, authVars, domVars, timerVars, closesSinceOpen,
                   scheduledSinceOpen, turnLog, submittedThisTurn, debugClicks>>
    /\ lastSubmit' = NoSubmit
    /\ UNCHANGED lobbyVars
    /\ UNCHANGED logVars

\* the debate_initialized that answers the test user's start_debate
MsgDebateInitialized(s, did) == MsgDebateInitializedFrame(s, TestDebateInitialized(did))

MsgDebateStartedFrame(s, data) ==
    /\ Receiving(s)
    /\ HandleDebateStarted(data)
    /\ lastFrame' = NoFrame
    /\ UNCHANGED <<page, sockets, websocket, reconnectAttempts, isConnected,
                   reconnectTimers, authVars, domVars, timerVars, histVars, debugClicks>>
    /\ lastSubmit' = NoSubmit
    /\ UNCHANGED lobbyVars
    /\ UNCHANGED <<debateLog, quietLog, timerDom>>
    /\ lastMessage' = NoMessage

\* the debate_started of the test user's debate
MsgDebateStarted(s) == MsgDebateStartedFrame(s, TestDebateStarted)

MsgPrepTimerStart(s) ==
    /\ Receiving(s)
    /\ HandlePrepTimerStart
    /\ lastFrame' = NoFrame
    /\ UNCHANGED <<page, connVars, authVars, debateVars, argumentInputContainer,
                   waitingMessage, argumentInput, timerVars, histVars, debugClicks>>
    /\ lastSubmit' = NoSubmit
    /\ UNCHANGED lobbyVars
    /\ UNCHANGED logVars
    /\ lastMessage' = NoMessage

MsgPrepTimer(s, data) ==
    /\ Receiving(s)
    /\ HandlePrepTimer(data)
    /\ lastFrame' = NoFrame
    /\ UNCHANGED <<page, connVars, authVars, debateVars, argumentInputContainer,
                   waitingMessage, argumentInput, timerVars, histVars, debugClicks>>
    /\ lastSubmit' = NoSubmit
    /\ UNCHANGED lobbyVars
    /\ UNCHANGED <<debatePhase, debateLog, quietLog>>
    /\ lastMessage' = NoMessage

MsgTurnTimer(s, data) ==
    /\ Receiving(s)
    /\ HandleTurnTimer(data)
    /\ lastFrame' = NoFrame
    /\ UNCHANGED <<page, connVars, authVars, debateVars, domVars, timerVars, histVars,
                   debugClicks>>
    /\ lastSubmit' = NoSubmit
    /\ UNCHANGED lobbyVars
    /\ UNCHANGED <<debatePhase, debateLog, quietLog>>
    /\ lastMessage' = NoMessage

MsgYourTurn(s) ==
    /\ Receiving(s)
    /\ HandleYourTurn
    /\ LogTurn("your_turn")
    /\ submittedThisTurn' = FALSE
    /\ lastFrame' = NoFrame
    /\ UNCHANGED <<page, connVars, authVars, debateVars, argumentInput, timerVars,
                   closesSinceOpen, scheduledSinceOpen, heartbeatLog, debugClicks>>
    /\ lastSubmit' = NoSubmit
    /\ UNCHANGED lobbyVars
    /\ UNCHANGED logVars
    /\ lastMessage' = NoMessage

MsgOpponentTurn(s) ==
    /\ Receiving(s)
    /\ HandleOpponentTurn
    /\ LogTurn("opponent_turn")
    /\ lastFrame' = NoFrame
    /\ UNCHANGED <<page, connVars, authVars, debateVars, argumentInput, timerVars,
                   closesSinceOpen, scheduledSinceOpen, submittedThisTurn, heartbeatLog,
                   debugClicks>>
    /\ lastSubmit' = NoSubmit
    /\ UNCHANGED lobbyVars
    /\ UNCHANGED logVars
    /\ lastMessage' = NoMessage

MsgDebateEnded(s) ==
    /\ Receiving(s)
    /\ HandleDebateEnded
    /\ lastFrame' = NoFrame
    /\ UNCHANGED <<page, connVars, isAuthenticated, currentUserId, currentUser,
                   debateVars, domVars, authTimer, startDebateTimer, manualStartTimer,
                   lobbyTimers, histVars, debugClicks>>
    /\ lastSubmit' = NoSubmit
    /\ UNCHANGED lobbyVars
    /\ UNCHANGED <<debateLog, quietLog, timerDom>>
    /\ lastMessage' = NoMessage

\* handleDebatePhaseStart: set the phase label (and add a system line to the log)
HandleDebatePhaseStart == SetDebatePhase("Debate")

MsgDebatePhaseStart(s) ==
    /\ Receiving(s)
    /\ HandleDebatePhaseStart
    /\ lastFrame' = NoFrame
    /\ UNCHANGED <<page, connVars, authVars, debateVars, domVars, timerVars, histVars,
                   debugClicks>>
    /\ lastSubmit' = NoSubmit
    /\ UNCHANGED lobbyVars
    /\ UNCHANGED <<debateLog, quietLog, timerDom>>
    /\ lastMessage' = NoMessage

\* the message events of the server: the sender is the user or somebody else
MessageSenders == 1..(MaxUserId + 1)
MessageContents == {"x", "y"}
MessageEvents == [sender_id : MessageSenders, content : MessageContents]

\* the entry addDebateMessage appends to #debateLog
LogEntry(class, data) == [class |-> class, content |-> data.content]

\* handleDebateMessage. Reading appState.currentUser.id with no identity stored throws
\* before anything is appended, and the dispatcher catches it; #debateLog is an element
\* of debate.html, and addDebateMessage returns where it is missing.
HandleDebateMessage(data) ==
    debateLog' = IF currentUser = Null \/ page # "debate"
                 THEN debateLog
                 ELSE Append(debateLog,
                             LogEntry(IF data.sender_id = currentUser.id
                                      THEN "user" ELSE "opponent", data))

MsgDebateMessage(s, data) ==
    /\ Receiving(s)
    /\ Len(debateLog) < MaxLogLen
    /\ HandleDebateMessage(data)
    /\ lastFrame' = NoFrame
    /\ UNCHANGED <<page, connVars, authVars, debateVars, domVars, timerVars, histVars,
                   debugClicks>>
    /\ lastSubmit' = NoSubmit
    /\ UNCHANGED lobbyVars
    /\ UNCHANGED <<debatePhase, quietLog, timerDom>>
    /\ lastMessage' = NoMessage

\* a frame that reaches no handler of the session; the steps differ only in quietLog
QuietFrame(s) ==
    /\ Receiving(s)
    /\ lastFrame' = NoFrame
    /\ UNCHANGED <<page, connVars, authVars, debateVars, domVars, timerVars, histVars,
                   debugClicks>>
    /\ lastSubmit' = NoSubmit
    /\ UNCHANGED lobbyVars
    /\ UNCHANGED <<debatePhase, debateLog, timerDom>>
    /\ lastMessage' = NoMessage

MsgUndecodableCloses(s) ==
    /\ Receiving(s)
    /\ sockets' = [sockets EXCEPT ![s].st = "CLOSING"]
    /\ quietLog' = [quietLog EXCEPT !.undecodable = Len(turnLog)]
    /\ lastFrame' = NoFrame
    /\ UNCHANGED <<page, websocket, reconnectAttempts, isConnected, connectionState,
                   reconnectTimers, authVars, debateVars, domVars, timerVars, histVars,
                   debugClicks>>
    /\ lastSubmit' = NoSubmit
    /\ UNCHANGED lobbyVars
    /\ UNCHANGED <<debatePhase, debateLog, timerDom>>
    /\ lastMessage' = NoMessage

\* a frame JSON.parse rejects: the catch of handleWebSocketMessage (of the manual
\* transport's onmessage) logs the error
MsgUndecodable(s) ==
    /\ QuietFrame(s)
    /\ quietLog' = [quietLog EXCEPT !.undecodable = Len(turnLog)]

\* a pong frame: the dispatcher breaks
MsgPong(s) ==
    /\ QuietFrame(s)
    /\ quietLog' = [quietLog EXCEPT !.pong = TRUE]

MsgUnknownStopsHeartbeat(s) ==
    /\ Receiving(s)
    /\ StopAutoPing
    /\ quietLog' = [quietLog EXCEPT !.unknown = TRUE]
    /\ lastFrame' = NoFrame
    /\ UNCHANGED <<page, connVars, authVars, currentDebate, domVars, timerVars, histVars,
                   debugClicks>>
    /\ lastSubmit' = NoSubmit
    /\ UNCHANGED lobbyVars
    /\ UNCHANGED <<debatePhase, debateLog, timerDom>>
    /\ lastMessage' = NoMessage

\* a frame whose type has no case: the default branch logs it
MsgUnknown(s) ==
    /\ QuietFrame(s)
    /\ quietLog' = [quietLog EXCEPT !.unknown = TRUE]

\* a frame with no effect on the session: pong, an unknown type, or one that fails to parse
MsgIgnored(s) == MsgUndecodable(s) \/ MsgPong(s) \/ MsgUnknown(s)

SocketErrorReconnects(s) ==
    /\ page \in ConnectedPages
    /\ sockets[s].st \in {"CONNECTING", "OPEN"}
    /\ quietLog' = [quietLog EXCEPT !.error = TRUE]
    /\ reconnectTimers' = reconnectTimers + 1
    /\ lastFrame' = NoFrame
    /\ UNCHANGED <<page, sockets, websocket, reconnectAttempts, isConnected,
                   connectionState, authVars, debateVars, domVars, timerVars, histVars,
                   debugClicks>>
    /\ lastSubmit' = NoSubmit
    /\ UNCHANGED lobbyVars
    /\ UNCHANGED <<debatePhase, debateLog, timerDom>>
    /\ lastMessage' = NoMessage

\* the error event of transport s: handleWebSocketError, or the manual transport's
\* onerror; both only write status texts
SocketError(s) ==
    /\ page \in ConnectedPages
    /\ sockets[s].st \in {"CONNECTING", "OPEN"}
    /\ quietLog' = [quietLog EXCEPT !.error = TRUE]
    /\ lastFrame' = NoFrame
    /\ UNCHANGED <<page, connVars, authVars, debateVars, domVars, timerVars, histVars,
                   debugClicks>>
    /\ lastSubmit' = NoSubmit
    /\ UNCHANGED lobbyVars
    /\ UNCHANGED <<debatePhase, debateLog, timerDom>>
    /\ lastMessage' = NoMessage

\* the heartbeat interval set by startAutoPing ticks
AutoPingTick ==
    /\ page \in ConnectedPages
    /\ pingIntervals > 0
    /\ lastFrame' = SendPingReady(currentDebate, currentUserId)
    /\ heartbeatLog' = IF lastFrame'.type = "ping_ready"
                       THEN [heartbeatLog EXCEPT !.sent = TRUE]
                       ELSE [heartbeatLog EXCEPT !.skipped = TRUE]
    /\ UNCHANGED <<page, connVars, authVars, debateVars, domVars, timerVars,
                   closesSinceOpen, scheduledSinceOpen, turnLog, submittedThisTurn,
                   debugClicks>>
    /\ lastSubmit' = NoSubmit
    /\ UNCHANGED lobbyVars
    /\ UNCHANGED logVars
    /\ lastMessage' = SendPingReadyMessage(currentDebate, currentUserId)

\* the timeout set by handleDebateEnded fires: the browser leaves for end.html
RedirectTimerFire ==
    /\ page = "debate"
    /\ redirectTimer
    /\ page' = "end"
    /\ redirectTimer' = FALSE
    /\ lastFrame' = NoFrame
    /\ UNCHANGED <<connVars, authVars, debateVars, domVars, authTimer, startDebateTimer,
                   manualStartTimer, lobbyTimers, histVars, debugClicks>>
    /\ lastSubmit' = NoSubmit
    /\ UNCHANGED lobbyVars
    /\ UNCHANGED logVars
    /\ lastMessage' = NoMessage

(* ---- the user: argument input and the debug buttons ---- *)

\* the user edits #argumentInput
TypeArgument(text) ==
    /\ page = "debate"
    /\ text # argumentInput
    /\ argumentInput' = text
    /\ lastFrame' = NoFrame
    /\ UNCHANGED <<page, connVars, authVars, debateVars, timerLabel,
                   argumentInputContainer, waitingMessage, timerVars, histVars, debugClicks>>
    /\ lastSubmit' = NoSubmit
    /\ UNCHANGED lobbyVars
    /\ UNCHANGED logVars
    /\ lastMessage' = NoMessage

\* submitArgument
SubmitArgument ==
    /\ page = "debate"
    /\ LET content == Trim(argumentInput)
       IN IF content = <<>> \/ currentUser = Null
          THEN /\ lastFrame' = NoFrame
               /\ lastMessage' = IF content = <<>>
                                 THEN ErrorMessage("Please enter an argument")
                                 ELSE NoMessage
               /\ UNCHANGED <<argumentInput, argumentInputContainer, waitingMessage>>
          ELSE /\ lastFrame' = SendOn(sockets, websocket,
                                      DebateMessageFrame(currentUser.id, content))
               /\ lastMessage' = SendFailure(sockets, websocket)
               /\ argumentInput' = <<>>
               /\ argumentInputContainer' = FALSE
               /\ waitingMessage' = TRUE
    /\ submittedThisTurn' = (submittedThisTurn \/ lastFrame'.type = "debate_message")
    /\ UNCHANGED <<page, connVars, authVars, debateVars, timerLabel, timerVars,
                   closesSinceOpen, scheduledSinceOpen, turnLog, heartbeatLog, debugClicks>>
    /\ lastSubmit' = argumentInput
    /\ UNCHANGED lobbyVars
    /\ UNCHANGED logVars

\* click on debugStartButton: handleDebateStarted and handlePrepTimer(prep_timer_start)
\* (the countdown the button then simulates is left out)
DebugStartClick ==
    /\ page = "debate"
    /\ HandleDebateStarted(TestDebateStarted)
    /\ HandlePrepTimerStart
    /\ lastFrame' = NoFrame
    /\ UNCHANGED <<page, sockets, websocket, reconnectAttempts, isConnected,
                   reconnectTimers, authVars, argumentInputContainer, waitingMessage,
                   argumentInput, timerVars, histVars, debugClicks>>
    /\ lastSubmit' = NoSubmit
    /\ UNCHANGED lobbyVars
    /\ UNCHANGED <<debateLog, quietLog, timerDom>>
    /\ lastMessage' = NoMessage

\* click on debugConnectButton
DebugConnectClick ==
    /\ page = "debate"
    /\ IF websocket # 0 /\ sockets[websocket].st = "OPEN"
       THEN /\ lastFrame' = SendOn(sockets, websocket,
                                   StartDebateFrame(IF currentUser # Null THEN currentUser.id ELSE 1,
                                                    IF currentDebate # Null THEN currentDebate.id ELSE 1))
            /\ UNCHANGED <<sockets, websocket, connectionState, debugClicks>>
       ELSE IF websocket # 0 /\ sockets[websocket].st = "CONNECTING"
       THEN /\ lastFrame' = NoFrame
            /\ UNCHANGED <<sockets, websocket, connectionState, debugClicks>>
       ELSE /\ debugClicks < MaxClicks
            /\ debugClicks' = debugClicks + 1
            /\ \E ok \in BOOLEAN : ConnectWebSocket(ok)
            /\ lastFrame' = NoFrame
    /\ UNCHANGED <<page, reconnectAttempts, isConnected, reconnectTimers, authVars,
                   debateVars, domVars, timerVars, histVars>>
    /\ lastSubmit' = NoSubmit
    /\ UNCHANGED lobbyVars
    /\ UNCHANGED logVars
    /\ lastMessage' = NoMessage

\* click on debugManualConnectButton: a transport with its own handlers replaces
\* appState.websocket
DebugManualConnectClick ==
    /\ page = "debate"
    /\ debugClicks < MaxClicks
    /\ debugClicks' = debugClicks + 1
    /\ \/ LET base == Collect(sockets, 0)
              slot == FirstFreeSlot(base)
          IN /\ HasFreeSlot(base)
             /\ sockets' = [base EXCEPT ![slot] = [st |-> "CONNECTING", kind |-> "manual"]]
             /\ websocket' = slot
       \/ UNCHANGED <<sockets, websocket>>
    /\ lastFrame' = NoFrame
    /\ UNCHANGED <<page, reconnectAttempts, isConnected, connectionState, reconnectTimers,
                   authVars, debateVars, domVars, timerVars, histVars>>
    /\ lastSubmit' = NoSubmit
    /\ UNCHANGED lobbyVars
    /\ UNCHANGED logVars
    /\ lastMessage' = NoMessage

(* ---- Login page and Matchmaking Client ---- *)

\* window.location.href = ...: the document is left; its appState, transports and timers
\* are gone. Which initialiser runs next is decided by the URL.
LeaveDocument ==
    /\ page' = "loading"
    /\ sockets' = [i \in Slots |-> FreeSocket]
    /\ websocket' = 0
    /\ reconnectAttempts' = 0
    /\ isConnected' = FALSE
    /\ isAuthenticated' = FALSE
    /\ currentUserId' = 0
    /\ currentUser' = Null
    /\ currentDebate' = Null
    /\ connectionState' = "disconnected"
    /\ reconnectTimers' = 0
    /\ authTimer' = FALSE
    /\ startDebateTimer' = FALSE
    /\ manualStartTimer' = {}
    /\ redirectTimer' = FALSE
    /\ loginRedirectTimer' = FALSE
    /\ proceedTimer' = FALSE
    /\ autoPingInterval' = FALSE
    /\ pingIntervals' = 0
    /\ timerLabel' = "initial"
    /\ argumentInputContainer' = FALSE
    /\ waitingMessage' = FALSE
    /\ argumentInput' = <<>>
    /\ debatePhase' = "initial"
    /\ debateLog' = <<>>
    /\ quietLog' = NoQuiet
    /\ timerBar' = NoBar
    /\ timerLog' = NoTimer
    /\ lastFrame' = NoFrame
    /\ lastSubmit' = NoSubmit
    /\ lastMessage' = NoMessage
    /\ createForm' = EmptyForm
    /\ lobbyDom' = InitLobbyDom
    /\ matchLog' = <<>>
    /\ closesSinceOpen' = 0
    /\ scheduledSinceOpen' = 0
    /\ turnLog' = <<>>
    /\ submittedThisTurn' = FALSE
    /\ heartbeatLog' = NoTicks
    /\ UNCHANGED debugClicks

\* a navigation that writes nothing to localStorage
Navigate ==
    /\ LeaveDocument
    /\ UNCHANGED localStorage

\* handleLogout, the click handler of #logoutButton on matchmaking.html: the Identity is
\* removed from localStorage, the transport is closed and the browser leaves for login.html
HandleLogout ==
    /\ page = "matchmaking"
    /\ localStorage' = [localStorage EXCEPT !.debateUser = Null]
    /\ LeaveDocument

\* the click handler of #returnToLobbyButton, wired by initializeEndPage when a debateUser
\* is stored: the context and the transcript are removed from localStorage and the
\* browser leaves for matchmaking.html
ReturnToLobbyClick ==
    /\ page = "end"
    /\ localStorage.debateUser # Null
    /\ localStorage' = [localStorage EXCEPT !.currentDebate = Null,
                                            !.finalDebateData = FALSE]
    /\ LeaveDocument

\* DOMContentLoaded on login.html: initializeLoginPage
InitializeLoginPage ==
    /\ page = "loading"
    /\ page' = "login"
    /\ \E ok \in BOOLEAN : ConnectWebSocket(ok)
    /\ lastFrame' = NoFrame
    /\ lastSubmit' = NoSubmit
    /\ lastMessage' = NoMessage
    /\ UNCHANGED <<reconnectAttempts, isConnected, reconnectTimers, authVars, debateVars,
                   domVars, timerVars, histVars, debugClicks, lobbyVars, logVars>>

\* DOMContentLoaded on matchmaking.html: initializeMatchmakingPage. With no debateUser
\* stored it only redirects to login.html, where initializeLoginPage runs.
InitializeMatchmakingPage ==
    /\ page = "loading"
    /\ localStorage.debateUser # Null
    /\ page' = "matchmaking"
    /\ currentUser' = localStorage.debateUser
    /\ \E ok \in BOOLEAN : ConnectWebSocket(ok)
    /\ lastFrame' = NoFrame
    /\ lastSubmit' = NoSubmit
    /\ lastMessage' = NoMessage
    /\ UNCHANGED <<reconnectAttempts, isConnected, reconnectTimers, isAuthenticated,
                   currentUserId, localStorage, debateVars, domVars, timerVars, histVars,
                   debugClicks, lobbyVars, logVars>>

\* the frames of handleLoginSubmit, handleCreateAccountSubmit, startMatchmaking and
\* stopMatchmaking
LoginFrame(username, password) ==
    [type |-> "authenticate", username |-> username, password |-> password]
CreateAccountFrame(username, password) ==
    [type |-> "create_account", username |-> username, password |-> password]
JoinMatchmakingFrame(uid) == [type |-> "join_matchmaking", user_id |-> uid]
LeaveMatchmakingFrame(uid) == [type |-> "leave_matchmaking", user_id |-> uid]

\* handleLoginSubmit with the values of #loginUsername and #loginPassword
HandleLoginSubmit(username, password) ==
    /\ page = "login"
    /\ IF username = "" \/ password = ""
       THEN /\ lastFrame' = NoFrame
            /\ lastMessage' = ErrorMessage("Please enter both username and password")
       ELSE /\ lastFrame' = SendOn(sockets, websocket, LoginFrame(username, password))
            /\ lastMessage' = SendFailure(sockets, websocket)
    /\ lastSubmit' = NoSubmit
    /\ UNCHANGED <<page, connVars, authVars, debateVars, domVars, timerVars, histVars,
                   debugClicks, lobbyVars, logVars>>

\* the user edits a field of the create-account form
TypeCreateForm(field, value) ==
    /\ page = "login"
    /\ createForm[field] # value
    /\ createForm' = [createForm EXCEPT ![field] = value]
    /\ lastFrame' = NoFrame
    /\ lastSubmit' = NoSubmit
    /\ lastMessage' = NoMessage
    /\ UNCHANGED <<page, connVars, authVars, debateVars, domVars, timerVars, histVars,
                   debugClicks, lobbyDom, matchLog, logVars>>

\* the local precondition of handleCreateAccountSubmit
CreateFormValidNoConfirm(form) == form.username # "" /\ form.password # ""
CreateFormValid(form) ==
    /\ form.username # "" /\ form.password # "" /\ form.confirmPassword # ""
    /\ form.password = form.confirmPassword

\* handleCreateAccountSubmit
HandleCreateAccountSubmit ==
    /\ page = "login"
    /\ IF ~CreateFormValid(createForm)
       THEN /\ lastFrame' = NoFrame
            /\ lastMessage' =
                 IF createForm.username = "" \/ createForm.password = ""
                    \/ createForm.confirmPassword = ""
                 THEN ErrorMessage("Please fill in all fields")
                 ELSE ErrorMessage("Passwords do not match")
       ELSE /\ lastFrame' = SendOn(sockets, websocket,
                                   CreateAccountFrame(createForm.username,
                                                      createForm.password))
            /\ lastMessage' = SendFailure(sockets, websocket)
    /\ lastSubmit' = NoSubmit
    /\ UNCHANGED <<page, connVars, authVars, debateVars, domVars, timerVars, histVars,
                   debugClicks, lobbyVars, logVars>>

\* the timeout set by handleAuthResponse outside debate.html fires: the browser leaves
\* for matchmaking.html
LoginRedirectFire ==
    /\ page \in {"login", "matchmaking"}
    /\ loginRedirectTimer
    /\ Navigate

\* startMatchmaking
StartMatchmaking ==
    /\ page = "matchmaking"
    /\ IF currentUser = Null
       THEN /\ lastFrame' = NoFrame
            /\ lastMessage' = NoMessage
            /\ UNCHANGED lobbyDom
       ELSE /\ lastFrame' = SendOn(sockets, websocket, JoinMatchmakingFrame(currentUser.id))
            /\ lastMessage' = SendFailure(sockets, websocket)
            /\ lobbyDom' = [lobbyDom EXCEPT !.statusContainer = TRUE]
    /\ lastSubmit' = NoSubmit
    /\ UNCHANGED <<page, connVars, authVars, debateVars, domVars, timerVars, histVars,
                   debugClicks, createForm, matchLog, logVars>>

\* stopMatchmaking
StopMatchmaking ==
    /\ page = "matchmaking"
    /\ IF currentUser = Null
       THEN /\ lastFrame' = NoFrame
            /\ lastMessage' = NoMessage
            /\ UNCHANGED lobbyDom
       ELSE /\ lastFrame' = SendOn(sockets, websocket, LeaveMatchmakingFrame(currentUser.id))
            /\ lastMessage' = SendFailure(sockets, websocket)
            /\ lobbyDom' = [statusContainer |-> FALSE, matchFoundContainer |-> FALSE]
    /\ lastSubmit' = NoSubmit
    /\ UNCHANGED <<page, connVars, authVars, debateVars, domVars, timerVars, histVars,
                   debugClicks, createForm, matchLog, logVars>>

\* a match_found frame: opponent may be missing (Null)
MatchDebateIds == 1..MaxDebateId
Opponents == {[username |-> "bob", mmr |-> 1490]}
MatchFoundEvents ==
    [debate_id : MatchDebateIds, topic : Topics, opponent : Opponents \cup {Null}]

\* the context handleMatchFound builds
MatchContextKeepsId(old, data) ==
    [id |-> IF old = Null THEN data.debate_id ELSE old.id,
     topic |-> data.topic, opponent |-> data.opponent]
MatchContext(old, data) ==
    [id |-> data.debate_id, topic |-> data.topic, opponent |-> data.opponent]

\* handleMatchFound. Reading data.opponent.username of a frame with no opponent throws;
\* the dispatcher catches it, after the context was stored and the containers switched.
HandleMatchFound(data) ==
    /\ currentDebate' = MatchContext(currentDebate, data)
    /\ localStorage' = [localStorage EXCEPT !.currentDebate = currentDebate']
    /\ lobbyDom' = [statusContainer |-> FALSE, matchFoundContainer |-> TRUE]
    /\ IF data.opponent = Null
       THEN /\ lastMessage' = NoMessage
            /\ UNCHANGED proceedTimer
       ELSE /\ lastMessage' = SuccessMessage("Match found! Entering debate room in 3 seconds...")
            /\ proceedTimer' = TRUE
    /\ matchLog' = IF Len(matchLog) < MaxMatches
                    THEN Append(matchLog, data.debate_id) ELSE matchLog

MsgMatchFound(s, data) ==
    /\ Receiving(s)
    /\ HandleMatchFound(data)
    /\ lastFrame' = NoFrame
    /\ lastSubmit' = NoSubmit
    /\ UNCHANGED <<page, connVars, isAuthenticated, currentUserId, currentUser,
                   autoPingInterval, pingIntervals, domVars, authTimer, startDebateTimer,
                   manualStartTimer,
                   redirectTimer, loginRedirectTimer, histVars, debugClicks, createForm,
                   logVars>>

\* the timeout set by handleMatchFound fires: proceedToDebate leaves for debate.html
ProceedTimerFire ==
    /\ page \in ConnectedPages
    /\ proceedTimer
    /\ Navigate

(* ---- specifications ---- *)

\* Connection Manager: every action that writes the transports, appState.websocket,
\* reconnectAttempts, isConnected, connectionState or the reconnect timers
NextConn ==
    \/ InitializeDebatePage
    \/ \E s \in Slots : SocketOpen(s)
    \/ \E s \in Slots : SocketClosing(s)
    \/ \E s \in Slots : SocketClose(s)
    \/ ReconnectTimerFire
    \/ \E s \in Slots, success \in BOOLEAN, uid \in TestUserIds : MsgAuthResponse(s, success, uid)
    \/ \E s \in Slots, did \in DebateIds : MsgDebateInitialized(s, did)
    \/ \E s \in Slots : MsgDebateStarted(s)
    \/ DebugStartClick
    \/ DebugConnectClick
    \/ DebugManualConnectClick

\* Debate Session: every action that writes the turn presentation or the argument
\* input, on the transport chain that connectWebSocket and the reconnect timer keep up
NextDebate ==
    \/ InitializeDebatePage
    \/ \E s \in Slots : SocketOpen(s)
    \/ \E s \in Slots : SocketClose(s)
    \/ ReconnectTimerFire
    \/ \E s \in Slots, success \in BOOLEAN, uid \in UserIds : MsgAuthResponse(s, success, uid)
    \/ \E s \in Slots : MsgPrepTimerStart(s)
    \/ \E s \in Slots : MsgYourTurn(s)
    \/ \E s \in Slots : MsgOpponentTurn(s)
    \/ \E s \in Slots : MsgDebateEnded(s)
    \/ RedirectTimerFire
    \/ \E text \in Texts : TypeArgument(text)
    \/ SubmitArgument
    \/ DebugStartClick

\* the timers and frames that only put a frame on the wire
NextWire ==
    \/ AuthTimerFire
    \/ StartDebateTimerFire
    \/ \E uid \in UserIds : ManualStartTimerFire(uid)
    \/ \E s \in Slots : MsgIgnored(s)
    \/ AutoPingTick

\* Readiness Heartbeat: the transports, the authentication and the debate events that
\* start, stop or feed the heartbeat, on the transport chain that connectWebSocket and
\* the reconnect timer keep up
NextHeartbeat ==
    \/ InitializeDebatePage
    \/ \E s \in Slots : SocketOpen(s)
    \/ \E s \in Slots : SocketClose(s)
    \/ ReconnectTimerFire
    \/ \E s \in Slots, success \in BOOLEAN, uid \in UserIds : MsgAuthResponse(s, success, uid)
    \/ \E s \in Slots, did \in DebateIds : MsgDebateInitialized(s, did)
    \/ \E s \in Slots : MsgDebateStarted(s)
    \/ \E s \in Slots : MsgDebateEnded(s)
    \/ RedirectTimerFire
    \/ DebugStartClick
    \/ AuthTimerFire
    \/ StartDebateTimerFire
    \/ \E s \in Slots : MsgIgnored(s)
    \/ AutoPingTick

\* Auth Session on login.html: the transport, the authentication and the two forms
NextLogin ==
    \/ InitializeLoginPage
    \/ \E s \in Slots : SocketOpen(s)
    \/ \E s \in Slots : SocketClose(s)
    \/ ReconnectTimerFire
    \/ AuthTimerFire
    \/ \E s \in Slots, data \in AuthResponses : MsgAuthResponseFrame(s, data)
    \/ \E username, password \in FieldValues : HandleLoginSubmit(username, password)
    \/ \E field \in CreateFields, value \in FieldValues : TypeCreateForm(field, value)
    \/ HandleCreateAccountSubmit

\* Matchmaking Client: the way from login.html to matchmaking.html and the queue
NextMatch ==
    \/ InitializeLoginPage
    \/ InitializeMatchmakingPage
    \/ \E s \in Slots : SocketOpen(s)
    \/ \E s \in Slots : SocketClose(s)
    \/ ReconnectTimerFire
    \/ \E s \in Slots, success \in BOOLEAN, uid \in UserIds : MsgAuthResponse(s, success, uid)
    \/ LoginRedirectFire
    \/ StartMatchmaking
    \/ StopMatchmaking
    \/ \E s \in Slots, data \in MatchFoundEvents : MsgMatchFound(s, data)
    \/ ProceedTimerFire

\* DebateContext: the events that create and change appState.currentDebate, on the way
\* from login.html over matchmaking.html to debate.html
NextContext ==
    \/ InitializeLoginPage
    \/ InitializeMatchmakingPage
    \/ InitializeDebatePage
    \/ \E s \in Slots : SocketOpen(s)
    \/ \E s \in Slots, success \in BOOLEAN, uid \in TestUserIds : MsgAuthResponse(s, success, uid)
    \/ LoginRedirectFire
    \/ \E s \in Slots, data \in MatchFoundEvents : MsgMatchFound(s, data)
    \/ ProceedTimerFire
    \/ \E s \in Slots, data \in DebateInitializedEvents : MsgDebateInitializedFrame(s, data)
    \/ \E s \in Slots, data \in DebateStartedEvents : MsgDebateStartedFrame(s, data)
    \/ AutoPingTick

\* the phases of a debate on debate.html, from debate_initialized to debate_ended
NextPhase ==
    \/ InitializeDebatePage
    \/ \E s \in Slots : SocketOpen(s)
    \/ \E s \in Slots, success \in BOOLEAN, uid \in TestUserIds : MsgAuthResponse(s, success, uid)
    \/ \E s \in Slots, did \in DebateIds : MsgDebateInitialized(s, did)
    \/ \E s \in Slots : MsgDebateStarted(s)
    \/ \E s \in Slots : MsgDebatePhaseStart(s)
    \/ \E s \in Slots : MsgYourTurn(s)
    \/ \E s \in Slots : MsgOpponentTurn(s)
    \/ \E s \in Slots : MsgDebateEnded(s)
    \/ RedirectTimerFire
    \/ AutoPingTick

\* the transcript on debate.html: the turns and the message events
NextTranscript ==
    \/ InitializeDebatePage
    \/ \E s \in Slots : SocketOpen(s)
    \/ \E s \in Slots, success \in BOOLEAN, uid \in UserIds : MsgAuthResponse(s, success, uid)
    \/ \E s \in Slots : MsgYourTurn(s)
    \/ \E s \in Slots : MsgOpponentTurn(s)
    \/ \E s \in Slots, data \in MessageEvents : MsgDebateMessage(s, data)

\* Protocol Dispatcher on debate.html: the frames that reach a handler and those that
\* reach none, with the timers and the heartbeat they could disturb
NextFrames ==
    \/ InitializeDebatePage
    \/ \E s \in Slots : SocketOpen(s)
    \/ AuthTimerFire
    \/ StartDebateTimerFire
    \/ \E s \in Slots, success \in BOOLEAN, uid \in TestUserIds : MsgAuthResponse(s, success, uid)
    \/ \E s \in Slots, did \in DebateIds : MsgDebateInitialized(s, did)
    \/ \E s \in Slots : MsgYourTurn(s)
    \/ \E s \in Slots : MsgUndecodable(s)
    \/ \E s \in Slots : MsgPong(s)
    \/ \E s \in Slots : MsgUnknown(s)
    \/ AutoPingTick

\* the failures of the transport on debate.html: construction that throws, error
\* events, close events and the reconnects they lead to
NextError ==
    \/ InitializeDebatePage
    \/ \E s \in Slots : SocketOpen(s)
    \/ \E s \in Slots : SocketError(s)
    \/ \E s \in Slots : SocketClose(s)
    \/ ReconnectTimerFire
    \/ AuthTimerFire
    \/ \E s \in Slots, success \in BOOLEAN, uid \in TestUserIds : MsgAuthResponse(s, success, uid)

\* Timer Reflector on debate.html: the timer events and the turn events between them
NextTimer ==
    \/ InitializeDebatePage
    \/ \E s \in Slots : SocketOpen(s)
    \/ \E s \in Slots, data \in PrepTimerEvents : MsgPrepTimer(s, data)
    \/ \E s \in Slots, data \in TurnTimerEvents : MsgTurnTimer(s, data)
    \/ \E s \in Slots : MsgYourTurn(s)
    \/ \E s \in Slots : MsgOpponentTurn(s)

\* the records kept in localStorage, from login to logout or the return to the lobby
NextStore ==
    \/ InitializeLoginPage
    \/ InitializeMatchmakingPage
    \/ InitializeDebatePage
    \/ \E s \in Slots : SocketOpen(s)
    \/ \E s \in Slots, success \in BOOLEAN, uid \in TestUserIds : MsgAuthResponse(s, success, uid)
    \/ LoginRedirectFire
    \/ \E s \in Slots, data \in MatchFoundEvents : MsgMatchFound(s, data)
    \/ ProceedTimerFire
    \/ \E s \in Slots : MsgDebateEnded(s)
    \/ RedirectTimerFire
    \/ HandleLogout
    \/ ReturnToLobbyClick

Next ==
    NextConn \/ NextDebate \/ NextHeartbeat \/ NextWire \/ NextLogin \/ NextMatch
        \/ NextContext \/ NextPhase \/ NextTranscript \/ NextFrames
        \/ NextError \/ NextTimer \/ NextStore

Spec == Init /\ [][Next]_vars
SpecConn == Init /\ [][NextConn]_vars
SpecDebate == Init /\ [][NextDebate]_vars
SpecHeartbeat == Init /\ [][NextHeartbeat]_vars
SpecLogin == Init /\ [][NextLogin]_vars
SpecMatch == Init /\ [][NextMatch]_vars
SpecContext == Init /\ [][NextContext]_vars
SpecPhase == Init /\ [][NextPhase]_vars
SpecTranscript == Init /\ [][NextTranscript]_vars
SpecFrames == Init /\ [][NextFrames]_vars
SpecError == Init /\ [][NextError]_vars
SpecTimer == Init /\ [][NextTimer]_vars
SpecStore == Init /\ [][NextStore]_vars

\* the transport failures with the scheduling the browser gives: a pending timeout
\* fires, and a transport that is connecting or open gets its open or close event
SpecErrorLive ==
    /\ SpecError
    /\ WF_vars(ReconnectTimerFire)
    /\ \A s \in Slots : WF_vars(SocketOpen(s) \/ SocketClose(s))

(* ---- properties ---- *)

\* a step in which handleWebSocketClose ran
CloseHandled == closesSinceOpen' = closesSinceOpen + 1

\* a step that is the open event of some transport
OpenEvent == \E s \in Slots : sockets[s].st = "CONNECTING" /\ sockets'[s].st = "OPEN"

\* a step that is the open event of a transport created by connectWebSocket
StdOpenEvent ==
    \E s \in Slots :
        sockets[s].st = "CONNECTING" /\ sockets'[s].st = "OPEN" /\ sockets[s].kind = "std"

\* a step that is an event of a transport appState.websocket no longer refers to
StaleTransportEvent ==
    \E s \in Slots :
        /\ s # websocket
        /\ \/ SocketOpen(s)
           \/ SocketClose(s)
           \/ \E success \in BOOLEAN, uid \in UserIds : MsgAuthResponse(s, success, uid)
           \/ \E did \in DebateIds : MsgDebateInitialized(s, did)
           \/ MsgDebateStarted(s)

\* a step that dispatches your_turn or opponent_turn
TurnEventStep == \E s \in Slots : MsgYourTurn(s) \/ MsgOpponentTurn(s)

BothShown == argumentInputContainer /\ waitingMessage

\* C1: with no open event in between, at most maxReconnectAttempts reconnects are
\* scheduled, and a close handled once reconnectAttempts has reached
\* maxReconnectAttempts schedules no further connectWebSocket.
C1_ReconnectBounded ==
    /\ [](scheduledSinceOpen <= maxReconnectAttempts /\ reconnectAttempts <= maxReconnectAttempts)
    /\ [][(CloseHandled /\ reconnectAttempts = maxReconnectAttempts)
            => reconnectTimers' = reconnectTimers]_vars

\* C1 witness: a close was handled at the maximum and scheduled nothing
C1_Witness ==
    /\ reconnectAttempts = maxReconnectAttempts
    /\ scheduledSinceOpen = maxReconnectAttempts
    /\ closesSinceOpen > scheduledSinceOpen

C3_CloseSetsDisconnected ==
    /\ [][(CloseHandled /\ reconnectAttempts < maxReconnectAttempts)
            => /\ reconnectAttempts' = reconnectAttempts + 1
               /\ reconnectTimers' = reconnectTimers + 1
               /\ connectionState' = "disconnected"]_vars
    /\ []((reconnectTimers > 0 /\ debugClicks = 0) => connectionState = "disconnected")

\* C4: a close handled while reconnectAttempts = maxReconnectAttempts sets connectionState
\* to lost and schedules nothing, and lost is never left.
C4_CloseAtMaxSetsLost ==
    /\ [][(CloseHandled /\ reconnectAttempts = maxReconnectAttempts)
            => (connectionState' = "lost" /\ reconnectTimers' = reconnectTimers)]_vars
    /\ [][connectionState = "lost" => connectionState' = "lost"]_vars

\* C5: every open event resets reconnectAttempts to 0 and sets connectionState to
\* connected.
C5_OpenResets ==
    [][OpenEvent => (reconnectAttempts' = 0 /\ connectionState' = "connected")]_vars

\* C6: only the transport appState.websocket refers to is live: an open, message or
\* close event of a transport that has been replaced changes nothing of appState and
\* schedules no timer.
C6_OneLiveTransport ==
    [][StaleTransportEvent
         => UNCHANGED <<reconnectAttempts, isConnected, connectionState, reconnectTimers,
                        authVars, debateVars, timerVars>>]_vars

\* C7: once handleWebSocketOpen has run, no reconnect timer is pending.
C7_OpenCancelsReconnect == [][StdOpenEvent => reconnectTimers' = 0]_vars

\* C8: every your_turn leaves the label naming the client and the argument input shown,
\* every opponent_turn leaves it naming the opponent and the input hidden, whatever
\* came before.
C8_TurnOwnership ==
    \A i \in 1..Len(turnLog) :
        /\ turnLog[i].ev = "your_turn" => (turnLog[i].owner = "self" /\ turnLog[i].input)
        /\ turnLog[i].ev = "opponent_turn"
              => (turnLog[i].owner = "opponent" /\ ~turnLog[i].input)

\* C8 witness: your_turn, opponent_turn, your_turn gave owners self, opponent, self
C8_Witness ==
    /\ Len(turnLog) = 3
    /\ [i \in 1..3 |-> turnLog[i].ev] = <<"your_turn", "opponent_turn", "your_turn">>
    /\ [i \in 1..3 |-> turnLog[i].owner] = <<"self", "opponent", "self">>

\* C9: the argument input and the waiting indicator are never both shown (no step makes
\* them so, and every turn event leaves exactly one of them shown), and the label comes
\* to name another owner only in a step that dispatches your_turn or opponent_turn.
C9_TurnExclusive ==
    /\ [][~BothShown => ~BothShown']_vars
    /\ [][TurnEventStep => (argumentInputContainer' # waitingMessage')]_vars
    /\ [][(Owner(timerLabel') # Owner(timerLabel) /\ Owner(timerLabel') # "none")
            => TurnEventStep]_vars

\* C9 witness: an argument was submitted in the client's turn: the input is hidden, the
\* waiting indicator shown, and the label still names the client
C9_Witness ==
    /\ lastFrame.type = "debate_message"
    /\ timerLabel = "your"
    /\ ~argumentInputContainer
    /\ waitingMessage

\* C10: no step taken while the argument input is hidden (the client is not in MyTurn)
\* puts a debate_message frame on the wire.
C10_NoSubmitOutsideMyTurn ==
    [][~argumentInputContainer => lastFrame'.type # "debate_message"]_vars

\* the text consists of whitespace only (it is empty after trimming)
IsBlank(t) == \A i \in 1..Len(t) : t[i] = "sp"

Pad(n) == [i \in 1..n |-> "sp"]

\* c is raw without its leading and trailing whitespace, and is not empty
TrimmedFrom(raw, c) ==
    /\ c # <<>>
    /\ Head(c) # "sp"
    /\ c[Len(c)] # "sp"
    /\ \E i, j \in 0..Len(raw) : raw = Pad(i) \o c \o Pad(j)

\* a transport is held and OPEN, so that sendWebSocketMessage sends
CanSend == websocket # 0 /\ sockets[websocket].st = "OPEN"

\* C11: submitArgument on whitespace-only input sends no frame and changes neither the
\* turn presentation nor the input; on any other input the debate_message frame it
\* sends carries the input without its surrounding whitespace and the current user's
\* id, and it sends one whenever an identity is held and the transport is open; no
\* other step sends a debate_message.
C11_SubmitTrims ==
    /\ [](lastSubmit # NoSubmit =>
            IF IsBlank(lastSubmit)
            THEN lastFrame = NoFrame
            ELSE /\ lastFrame.type = "debate_message"
                      => /\ TrimmedFrom(lastSubmit, lastFrame.content)
                         /\ currentUser # Null
                         /\ lastFrame.user_id = currentUser.id
                 /\ (currentUser # Null /\ CanSend) => lastFrame.type = "debate_message")
    /\ [](lastFrame.type = "debate_message" => lastSubmit # NoSubmit)
    /\ [][(lastSubmit' # NoSubmit /\ IsBlank(lastSubmit')) => UNCHANGED domVars]_vars

\* C11 witness: the input " a" was submitted and the frame carries "a"
C11_Witness ==
    /\ lastSubmit = <<"sp", "a">>
    /\ lastFrame.type = "debate_message"
    /\ lastFrame.content = <<"a">>
    /\ lastFrame.user_id = currentUser.id

\* a step that dispatches your_turn
YourTurnStep == \E s \in Slots : MsgYourTurn(s)

\* C12: a submitArgument that sends leaves the argument input hidden and the label
\* naming the same owner; the input comes to be shown only in a step that dispatches
\* your_turn; and once a debate_message has been sent, none is sent again before the
\* next your_turn event.
C12_OneSubmitPerTurn ==
    /\ [][lastFrame'.type = "debate_message"
            => (~argumentInputContainer' /\ timerLabel' = timerLabel)]_vars
    /\ [][(~argumentInputContainer /\ argumentInputContainer') => YourTurnStep]_vars
    /\ [][submittedThisTurn => lastFrame'.type # "debate_message"]_vars

\* a step that dispatches debate_initialized, debate_started, debate_ended
DebateInitializedStep == \E s \in Slots, did \in DebateIds : MsgDebateInitialized(s, did)
DebateStartedStep == \E s \in Slots : MsgDebateStarted(s)
DebateEndedStep == \E s \in Slots : MsgDebateEnded(s)

\* C13: debate_initialized (the entry into WaitingOpponent) sets the heartbeat interval
\* and, the user id being present and the transport open, sends one ping_ready at once;
\* the interval ticks only while it is set, and every tick taken with the context and
\* the user id present and the transport open sends one ping_ready for that user and
\* debate; no other step sends a ping_ready.
C13_HeartbeatPings ==
    /\ [][DebateInitializedStep
            => /\ autoPingInterval'
               /\ (currentUserId # 0 /\ CanSend)
                     => lastFrame' = PingReadyFrame(currentUserId, currentDebate'.id)]_vars
    /\ [][AutoPingTick
            => /\ autoPingInterval
               /\ (currentDebate # Null /\ currentUserId # 0 /\ CanSend)
                     => lastFrame' = PingReadyFrame(currentUserId, currentDebate.id)]_vars
    /\ [][lastFrame'.type = "ping_ready" => (DebateInitializedStep \/ AutoPingTick)]_vars

\* C13 witness: the heartbeat is active and the last step was a tick that sent a
\* ping_ready
C13_Witness ==
    /\ autoPingInterval
    /\ heartbeatLog.sent
    /\ lastFrame = PingReadyFrame(currentUserId, currentDebate.id)
    /\ currentDebate.phase = "waiting_for_opponent"

\* C14: once debate_started has been processed (the context is in phase preparation),
\* no step sends a ping_ready.
C14_NoPingAfterStart ==
    [][(currentDebate # Null /\ currentDebate.phase = "preparation")
         => lastFrame'.type # "ping_ready"]_vars

\* C15: an interval tick taken while the context or the identity (appState.currentUser,
\* appState.currentUserId) is absent sends no frame and changes nothing of appState, the
\* timers or the page.
C15_TickWithoutContext ==
    [][(AutoPingTick /\ (currentDebate = Null \/ currentUser = Null \/ currentUserId = 0))
         => /\ lastFrame' = NoFrame
            /\ UNCHANGED <<page, connVars, authVars, debateVars, domVars, timerVars>>]_vars

\* C15 witness: the heartbeat is active, no user id is held, and a tick since its start
\* has sent nothing
C15_Witness ==
    /\ autoPingInterval
    /\ currentUserId = 0
    /\ currentDebate # Null
    /\ heartbeatLog.skipped
    /\ lastFrame = NoFrame

\* C16: while the debate page is up the heartbeat interval is set only if the context is
\* in phase waiting_for_opponent, and debate_started, debate_ended and the debug start
\* leave no interval set.
C16_HeartbeatOnlyWaiting ==
    /\ []((page = "debate" /\ autoPingInterval)
            => (currentDebate # Null /\ currentDebate.phase = "waiting_for_opponent"))
    /\ [][(DebateStartedStep \/ DebateEndedStep \/ DebugStartClick)
            => ~autoPingInterval']_vars

\* C17: an auth_response with success = true stores the identity {id, username, mmr,
\* user_class} of the response in appState.currentUser and in localStorage, user_class
\* being 0 when the response carries none, sets currentUserId and isAuthenticated, and
\* sets connectionState to authenticated.
C17_AuthSuccessStoresIdentity ==
    [][\A s \in Slots, data \in AuthResponses :
         (MsgAuthResponseFrame(s, data) /\ data.success)
            => /\ currentUser' = [id |-> data.user_id, username |-> data.username,
                                  mmr |-> data.mmr,
                                  user_class |-> IF data.user_class = Undefined
                                                 THEN 0 ELSE data.user_class]
               /\ localStorage'.debateUser = currentUser'
               /\ currentUserId' = data.user_id
               /\ isAuthenticated'
               /\ connectionState' = "authenticated"]_vars

\* C17 witness: the login of alice has just succeeded; her stored user_class is 0
C17_Witness ==
    /\ lastMessage = SuccessMessage("Login successful!")
    /\ currentUser # Null
    /\ currentUser.username = "alice"
    /\ currentUser.user_class = 0
    /\ isAuthenticated
    /\ connectionState = "authenticated"

\* C18: an auth_response with success = false sets connectionState to disconnected,
\* shows the error of the response, and leaves appState.currentUser, currentUserId,
\* isAuthenticated and localStorage as they were.
C18_AuthFailureKeepsIdentity ==
    [][\A s \in Slots, data \in AuthResponses :
         (MsgAuthResponseFrame(s, data) /\ ~data.success)
            => /\ connectionState' = "disconnected"
               /\ lastMessage' = [kind |-> "error", text |-> data.error]
               /\ UNCHANGED <<currentUser, currentUserId, isAuthenticated,
                              localStorage>>]_vars

\* C18 witness: an authentication has just failed while an identity is held
C18_Witness ==
    /\ lastMessage = [kind |-> "error", text |-> "Server error"]
    /\ connectionState = "disconnected"
    /\ currentUser # Null
    /\ currentUserId = currentUser.id
    /\ isAuthenticated

\* the three fields of the create-account form are filled and the passwords are equal
FormComplete ==
    /\ \A field \in CreateFields : createForm[field] # ""
    /\ createForm.password = createForm.confirmPassword

\* C19: handleCreateAccountSubmit puts a create_account frame on the wire only if the
\* three fields are non-empty and the password equals its confirmation, and the frame
\* carries that username and password; otherwise it shows an error, sends nothing and
\* changes nothing of appState. No other step sends a create_account frame.
C19_CreateAccountPrecondition ==
    /\ [](lastFrame.type = "create_account"
            => /\ FormComplete
               /\ lastFrame.username = createForm.username
               /\ lastFrame.password = createForm.password)
    /\ [][HandleCreateAccountSubmit
            => IF FormComplete
               THEN CanSend => lastFrame'.type = "create_account"
               ELSE /\ lastFrame' = NoFrame
                    /\ lastMessage'.kind = "error"
                    /\ UNCHANGED <<connVars, authVars, debateVars, timerVars>>]_vars
    /\ [][lastFrame'.type = "create_account" => HandleCreateAccountSubmit]_vars

\* C19 witness: a complete form has just been submitted and the frame is on the wire
C19_Witness ==
    /\ lastFrame = [type |-> "create_account", username |-> "a", password |-> "b"]
    /\ createForm.confirmPassword = "b"

\* C20: every match_found sets appState.currentDebate (and the stored copy) to
\* {id: debate_id, topic, opponent} of that event, whether or not a context was held,
\* and, the event carrying an opponent, the handler runs to its end: it announces the
\* match and schedules the move to the debate page.
C20_MatchFoundReplaces ==
    [][\A s \in Slots, data \in MatchFoundEvents :
         MsgMatchFound(s, data)
            => /\ currentDebate' = [id |-> data.debate_id, topic |-> data.topic,
                                    opponent |-> data.opponent]
               /\ localStorage'.currentDebate = currentDebate'
               /\ data.opponent # Null
                     => (proceedTimer' /\ lastMessage'.kind = "success")]_vars

\* C20 witness: match_found for debate 1, then match_found for debate 2: the context
\* is the one of debate 2
C20_Witness ==
    /\ page = "matchmaking"
    /\ matchLog = <<1, 2>>
    /\ currentDebate # Null
    /\ currentDebate.id = 2
    /\ lastMessage.kind = "success"

\* the fields of a context other than those debate_started writes
KeptFields(ctx) == DOMAIN ctx \ {"yourSide", "opponentSide", "phase"}

\* C21: a debate_started processed while appState.currentDebate is set writes the
\* event's sides into the context, sets its phase to preparation, keeps its other
\* fields and clears the heartbeat interval, whether the context was built by
\* handleMatchFound or by handleDebateInitialized.
C21_DebateStartedRecords ==
    [][\A s \in Slots, data \in DebateStartedEvents :
         (MsgDebateStartedFrame(s, data) /\ currentDebate # Null)
           => /\ {"yourSide", "opponentSide", "phase"} \subseteq DOMAIN currentDebate'
              /\ currentDebate'.yourSide = data.your_side
              /\ currentDebate'.opponentSide = data.opponent_side
              /\ currentDebate'.phase = "preparation"
              /\ \A k \in KeptFields(currentDebate) : currentDebate'[k] = currentDebate[k]
              /\ ~autoPingInterval']_vars

\* C21 witness: a context built by handleMatchFound carries the sides of a later
\* debate_started and the phase preparation, and the heartbeat is off
C21_Witness ==
    /\ currentDebate # Null
    /\ "opponent" \in DOMAIN currentDebate
    /\ "phase" \in DOMAIN currentDebate
    /\ currentDebate.phase = "preparation"
    /\ currentDebate.yourSide = "Negation"
    /\ currentDebate.opponentSide = "Proposition"
    /\ connectionState = "ready"
    /\ ~autoPingInterval

\* C22: every debate_initialized replaces appState.currentDebate by a context holding
\* the event's debate id, topic, sides and preparation time with the phase
\* waiting_for_opponent, and starts the heartbeat: the interval is set and, the user id
\* being present and the transport open, one ping_ready for that debate goes out.
C22_DebateInitializedCreates ==
    [][\A s \in Slots, data \in DebateInitializedEvents :
         MsgDebateInitializedFrame(s, data)
           => /\ currentDebate' = [id |-> data.debate_id, topic |-> data.topic,
                                   yourSide |-> data.your_side,
                                   opponentSide |-> data.opponent_side,
                                   prepTime |-> data.prep_time_minutes,
                                   phase |-> "waiting_for_opponent"]
              /\ autoPingInterval'
              /\ (currentUserId # 0 /\ CanSend)
                    => lastFrame' = PingReadyFrame(currentUserId, data.debate_id)]_vars

\* C22 witness: on debate.html a debate_initialized with the sides Negation/Proposition
\* has just been processed: its context is held, waiting for the opponent, the
\* heartbeat is on and its first ping_ready is on the wire
C22_Witness ==
    /\ page = "debate"
    /\ currentDebate # Null
    /\ "prepTime" \in DOMAIN currentDebate
    /\ currentDebate.phase = "waiting_for_opponent"
    /\ currentDebate.yourSide = "Negation"
    /\ currentDebate.opponentSide = "Proposition"
    /\ autoPingInterval
    /\ heartbeatLog = NoTicks
    /\ lastFrame = PingReadyFrame(currentUserId, currentDebate.id)

\* C23: a debate_phase_start processed while the context's phase is preparation sets
\* the context's phase to debate.
C23_PhaseStartSetsDebate ==
    [][\A s \in Slots :
         (MsgDebatePhaseStart(s) /\ currentDebate # Null
            /\ currentDebate.phase = "preparation")
           => currentDebate'.phase = "debate"]_vars

\* the session has ended: debate_ended was processed on this page, which is not yet left
Ended == page = "debate" /\ redirectTimer

\* C24: a debate_ended persists the final transcript and marks the session finished
\* (in the context's phase or, at the least, in the phase label), and from then on no
\* event takes the finished mark away or shows the argument input again while the
\* page is held.
C24_EndedTerminal ==
    /\ [][DebateEndedStep
            => /\ localStorage'.finalDebateData
               /\ \/ debatePhase' = "Finished"
                  \/ /\ currentDebate' # Null
                     /\ "phase" \in DOMAIN currentDebate'
                     /\ currentDebate'.phase = "finished"]_vars
    /\ [][(Ended /\ page' = "debate")
            => /\ debatePhase' = "Finished"
               /\ argumentInputContainer' => argumentInputContainer]_vars

\* a step that dispatches a message event
MessageStep == \E s \in Slots, data \in MessageEvents : MsgDebateMessage(s, data)

\* a turn is shown
DuringTurn == timerLabel \in {"your", "opp"}

\* C25: on debate.html every message event processed during a turn appends exactly one
\* entry with the event's content to the transcript, of class user when sender_id is
\* the id of the stored identity and of class opponent otherwise, also when no
\* identity is stored; no other step changes the transcript.
C25_MessagesAppended ==
    /\ [][\A s \in Slots, data \in MessageEvents :
            (MsgDebateMessage(s, data) /\ page = "debate" /\ DuringTurn)
              => debateLog' = Append(debateLog,
                                     LogEntry(IF currentUser # Null
                                                  /\ data.sender_id = currentUser.id
                                              THEN "user" ELSE "opponent", data))]_vars
    /\ [][(~MessageStep /\ page' = page) => debateLog' = debateLog]_vars

\* C26: a frame that fails to decode changes nothing of appState, the DOM, the
\* heartbeat, the timers or the page; its transport stays open, no reconnect is
\* scheduled, and the dispatcher still receives on that transport afterwards.
C26_UndecodableCaught ==
    [][\A s \in Slots :
         MsgUndecodable(s)
           => /\ UNCHANGED <<page, connVars, authVars, debateVars, domVars, timerVars,
                             debatePhase, debateLog>>
              /\ sockets'[s].st = "OPEN"
              /\ reconnectTimers' = reconnectTimers
              /\ Receiving(s)']_vars

\* C26 witness: an undecodable frame arrived before any turn event, and a your_turn that
\* arrived after it was processed
C26_Witness ==
    /\ quietLog.undecodable = 0
    /\ Len(turnLog) = 1
    /\ turnLog[1].ev = "your_turn"
    /\ timerLabel = "your"
    /\ argumentInputContainer

\* C27: a pong frame and a frame of unknown type leave every field of appState, the
\* heartbeat interval and every pending timer as they were.
C27_UnknownIgnored ==
    [][\A s \in Slots :
         (MsgPong(s) \/ MsgUnknown(s))
           => /\ UNCHANGED <<websocket, reconnectAttempts, isConnected, isAuthenticated,
                             currentUserId, currentUser, currentDebate, connectionState>>
              /\ UNCHANGED autoPingInterval
              /\ UNCHANGED <<reconnectTimers, timerVars>>]_vars

\* C27 witness: a pong and a frame of unknown type arrived on this page; the context,
\* the heartbeat and a pending start_debate timer are in place
C27_Witness ==
    /\ quietLog.pong
    /\ quietLog.unknown
    /\ currentDebate # Null
    /\ autoPingInterval
    /\ startDebateTimer

\* the frames authenticateTestUser and startDebateProcess hand to sendWebSocketMessage
OutboundFrames ==
    {AuthenticateFrame} \cup {StartDebateFrame(uid, 1) : uid \in UserIds}

\* C28: with a transport held and open, sendWebSocketMessage puts the frame on the wire,
\* shows nothing and returns true; in every other case it puts nothing on the wire,
\* shows 'Not connected to server' and returns false. authenticateTestUser and
\* startDebateProcess send through it.
C28_SendIffOpen ==
    /\ [](\A frame \in OutboundFrames :
            IF CanSend
            THEN /\ SendOn(sockets, websocket, frame) = frame
                 /\ SendFailure(sockets, websocket) = NoMessage
                 /\ SendReturns(sockets, websocket) = TRUE
            ELSE /\ SendOn(sockets, websocket, frame) = NoFrame
                 /\ SendFailure(sockets, websocket) = ErrorMessage("Not connected to server")
                 /\ SendReturns(sockets, websocket) = FALSE)
    /\ [][AuthTimerFire
            => IF CanSend
               THEN lastFrame' = AuthenticateFrame /\ lastMessage' = NoMessage
               ELSE /\ lastFrame' = NoFrame
                    /\ lastMessage' = ErrorMessage("Not connected to server")]_vars
    /\ [][(StartDebateTimerFire /\ currentUserId # 0)
            => IF CanSend
               THEN /\ lastFrame' = StartDebateFrame(currentUserId, 1)
                    /\ lastMessage' = NoMessage
               ELSE /\ lastFrame' = NoFrame
                    /\ lastMessage' = ErrorMessage("Not connected to server")]_vars

\* C28 witness: a send was tried while appState.websocket held a transport that was no
\* longer open: nothing went out and the error was shown
C28_Witness ==
    /\ websocket # 0
    /\ sockets[websocket].st = "CLOSED"
    /\ lastFrame = NoFrame
    /\ lastMessage = ErrorMessage("Not connected to server")

\* a step that is the error event of some transport
ErrorEvent == \E s \in Slots : SocketError(s)

\* a step in which connectWebSocket ran
ConnectCalled == InitializeDebatePage \/ ReconnectTimerFire

\* a step that created no transport
ConstructionFailed ==
    \A i \in Slots : sockets'[i].st = "CONNECTING" => sockets[i].st = "CONNECTING"

\* C29: the error event of a transport leaves reconnectAttempts, isConnected,
\* connectionState, the reconnect timers and the transports as they were; a reconnect is
\* scheduled only by a close event.
C29_ErrorSchedulesNothing ==
    /\ [][ErrorEvent
            => UNCHANGED <<reconnectTimers, reconnectAttempts, isConnected,
                           connectionState, sockets, websocket>>]_vars
    /\ [][reconnectTimers' > reconnectTimers => \E s \in Slots : SocketClose(s)]_vars

\* C29 witness: an error event arrived for the first transport while it was connecting,
\* its close event has not arrived yet, and nothing is scheduled or counted
C29_Witness ==
    /\ quietLog.error
    /\ websocket # 0
    /\ sockets[websocket].st = "CONNECTING"
    /\ closesSinceOpen = 0
    /\ reconnectTimers = 0
    /\ reconnectAttempts = 0
    /\ connectionState = "connecting"

\* C30: a connectWebSocket whose construction of the transport fails leaves
\* connectionState = disconnected, appState.websocket and reconnectAttempts as they
\* were, and schedules no reconnect.
C30_ConstructionFailure ==
    [][(ConnectCalled /\ ConstructionFailed)
         => /\ connectionState' = "disconnected"
            /\ reconnectAttempts' = reconnectAttempts
            /\ reconnectTimers' <= reconnectTimers
            /\ websocket' = websocket]_vars

\* C30 witness: the construction failed when debate.html was loaded: no transport is
\* held, the state is disconnected, and no reconnect is pending or counted
C30_Witness ==
    /\ page = "debate"
    /\ websocket = 0
    /\ connectionState = "disconnected"
    /\ reconnectTimers = 0
    /\ reconnectAttempts = 0

\* the transport held in appState.websocket is open
TransportOpen == websocket # 0 /\ sockets[websocket].st = "OPEN"

\* the terminal state after the reconnect attempts are used up: the state is called
\* lost, or the counter is at its maximum with no reconnect pending and no transport live
Lost ==
    \/ connectionState = "lost"
    \/ /\ reconnectAttempts = maxReconnectAttempts
       /\ reconnectTimers = 0
       /\ LiveSockets = {}

\* a reconnect is pending or a connection attempt is in progress
Recovering == reconnectTimers > 0 \/ \E i \in Slots : sockets[i].st = "CONNECTING"

\* C31: on the page, whenever the held transport is not open and the state is not lost,
\* a reconnect is pending or a transport is connecting, and with timers that fire and
\* transports that get their events the client comes to an open transport or to lost.
C31_ProgressUnlessLost ==
    /\ []((page = "debate" /\ ~TransportOpen /\ ~Lost) => Recovering)
    /\ (page = "debate" /\ ~TransportOpen) ~> (TransportOpen \/ Lost)

(* ---- C32 ---- *)

\* C32: a timer event that carries a display sets the bar of the debate page to
\* (total - remaining) / total, where total is 180 seconds for a prep timer event and
\* 120 seconds for a turn timer event whatever else the event carries, and remaining is
\* its remaining_seconds (0 when it is missing or 0)
C32_TimerProgress ==
    [][/\ \A s \in Slots, data \in PrepTimerEvents :
            (MsgPrepTimer(s, data) /\ data.display # "" /\ page = "debate")
                => timerBar' = [num |-> PrepTotal - OrZero(data.remaining_seconds),
                                den |-> PrepTotal]
       /\ \A s \in Slots, data \in TurnTimerEvents :
            (MsgTurnTimer(s, data) /\ data.display # "" /\ page = "debate")
                => timerBar' = [num |-> TurnTotal - OrZero(data.remaining_seconds),
                                den |-> TurnTotal]]_vars

\* a turn timer event with 60 seconds remaining has set the bar to one half
C32_Witness ==
    /\ timerLog.kind = "turn" /\ timerLog.remaining = 60
    /\ timerBar = [num |-> 60, den |-> TurnTotal]

(* ---- C33 ---- *)

\* C33: whatever remaining_seconds the server pushes, negative values and values above
\* the total of the kind included, the progress shown by the bar lies between 0 and 1
C33_ProgressInUnitInterval ==
    timerBar # NoBar => (0 <= timerBar.num /\ timerBar.num <= timerBar.den)

(* ---- C34 ---- *)

\* a/b <= c/d for fractions with positive denominators
FractionLeq(x, y) == x.num * y.den <= y.num * x.den

\* the timer event sets the bar, belongs to the phase of the event that set it last, and
\* its remaining_seconds (0 when omitted) is strictly below that event's
DecreasingTimerEvent(kind, data) ==
    /\ page = "debate"
    /\ data.display # ""
    /\ timerLog.kind = kind
    /\ OrZero(data.remaining_seconds) < OrZero(timerLog.remaining)

\* C34: within one phase, a timer event whose remaining_seconds is strictly below the
\* one displayed before it (an omitted remaining_seconds counting as 0) never moves the
\* bar backwards: the progress it displays is at least the progress displayed before
C34_ProgressMonotone ==
    [][/\ \A s \in Slots, data \in PrepTimerEvents :
            (MsgPrepTimer(s, data) /\ DecreasingTimerEvent("prep", data))
                => FractionLeq(timerBar, timerBar')
       /\ \A s \in Slots, data \in TurnTimerEvents :
            (MsgTurnTimer(s, data) /\ DecreasingTimerEvent("turn", data))
                => FractionLeq(timerBar, timerBar')]_vars

\* a prep timer event that omits remaining_seconds has followed one with 60 seconds
\* remaining: the bar went from two thirds to full
C34_Witness ==
    /\ timerLog.kind = "prep" /\ timerLog.remaining = Undefined
    /\ timerLog.before = <<60>>
    /\ timerBar = [num |-> PrepTotal, den |-> PrepTotal]

(* ---- C35 ---- *)

\* C35: an Identity stored by a successful authentication is not changed by any later
\* event, a further auth_response included: as long as an Identity stays stored (it is
\* removed by logout only) it is the same record, in appState and in localStorage
C35_IdentityImmutable ==
    [][/\ (localStorage.debateUser # Null /\ localStorage.debateUser' # Null)
            => localStorage.debateUser' = localStorage.debateUser
       /\ (currentUser # Null /\ currentUser' # Null)
            => currentUser' = currentUser]_vars

(* ---- C36 ---- *)

\* C36: after logout, and after return-to-lobby, none of the three records kept in
\* localStorage (the Identity, the active DebateContext, the final transcript) is
\* still stored
C36_LogoutClearsStore ==
    [][(HandleLogout \/ ReturnToLobbyClick)
          => /\ localStorage'.debateUser = Null
             /\ localStorage'.currentDebate = Null
             /\ ~localStorage'.finalDebateData]_vars

(* ---- C37 ---- *)

\* the place of a phase in the order waiting_for_opponent, preparation, debate,
\* finished; 0 for any other value
PhaseRank(phase) ==
    CASE phase = "waiting_for_opponent" -> 1
      [] phase = "preparation" -> 2
      [] phase = "debate" -> 3
      [] phase = "finished" -> 4
      [] OTHER -> 0
HasPhase(debate) == debate # Null /\ "phase" \in DOMAIN debate
PreparationBegun(debate) == HasPhase(debate) /\ PhaseRank(debate.phase) >= 2

\* C37: within one page, an event never moves the phase of the DebateContext back to an
\* earlier phase nor leaves the context without a phase, and never starts the heartbeat
\* again once preparation has begun (debate_initialized or match_found arriving again
\* after debate_started included)
C37_PhaseForwardOnly ==
    [][(page' = page /\ HasPhase(currentDebate))
          => /\ HasPhase(currentDebate')
             /\ PhaseRank(currentDebate'.phase) >= PhaseRank(currentDebate.phase)
             /\ (PreparationBegun(currentDebate) /\ ~autoPingInterval)
                    => ~autoPingInterval']_vars

(* ---- C38 ---- *)

\* C38: when submitArgument runs with non-empty content and an Identity while the
\* transport is not open, so that the send fails, the argument is not treated as
\* delivered: the input keeps its text and the input container stays as it was
C38_FailedSubmitKeepsInput ==
    [][(/\ SubmitArgument
        /\ Trim(argumentInput) # <<>>
        /\ currentUser # Null
        /\ ~TransportOpen)
          => /\ lastFrame' = NoFrame
             /\ argumentInput' = argumentInput
             /\ argumentInputContainer' = argumentInputContainer
             /\ waitingMessage' = waitingMessage]_vars

(* ---- C39 ---- *)

\* C39: at most one heartbeat interval exists at any time, and none when
\* autoPingInterval is null; whatever the sequence of debate_initialized and
\* debate_started events, exactly one interval exists after a debate_initialized (the
\* one set before is cleared first) and none after a debate_started, so the interval
\* ticks of a period come from one interval only
C39_OneHeartbeatInterval ==
    /\ [](pingIntervals <= 1 /\ (~autoPingInterval => pingIntervals = 0))
    /\ [][\A s \in Slots, data \in DebateInitializedEvents :
            MsgDebateInitializedFrame(s, data)
                => (autoPingInterval' /\ pingIntervals' = 1)]_vars
    /\ [][\A s \in Slots, data \in DebateStartedEvents :
            MsgDebateStartedFrame(s, data)
                => (~autoPingInterval' /\ pingIntervals' = 0)]_vars

\* a debate_initialized for another context arrived while the heartbeat was running:
\* one interval is set, and it has ticked and sent a ping_ready since
C39_Witness ==
    /\ page = "debate"
    /\ heartbeatLog.cleared
    /\ heartbeatLog.sent
    /\ autoPingInterval
    /\ pingIntervals = 1

(* ---- C40 ---- *)

\* the transport held in appState.websocket has delivered its open event and not yet its
\* close event (readyState OPEN, or CLOSING while the closing handshake runs)
CurrentTransportUp ==
    websocket # 0 /\ sockets[websocket].st \in {"OPEN", "CLOSING"}

\* the close event of a transport that appState.websocket no longer refers to
StaleClose(s) == SocketClose(s) /\ s # websocket

\* C40: isConnected is true exactly when the transport held in appState.websocket is
\* open and has delivered its open event; the close event of an earlier, replaced
\* transport neither sets isConnected to false nor increments reconnectAttempts while
\* the current transport is open
C40_IsConnectedMatchesTransport ==
    /\ [](isConnected <=> CurrentTransportUp)
    /\ [][\A s \in Slots :
            (StaleClose(s) /\ TransportOpen)
                => /\ isConnected' = isConnected
                   /\ reconnectAttempts' = reconnectAttempts]_vars

TypeOK ==
    /\ page \in {"loading", "login", "matchmaking", "debate", "end"}
    /\ websocket \in Slots \cup {0}
    /\ reconnectAttempts \in 0..maxReconnectAttempts
    /\ connectionState \in ConnectionStates
    /\ reconnectTimers \in 0..(MaxClicks + 1)
    /\ Cardinality(LiveSockets) + reconnectTimers <= debugClicks + 1
    /\ HasFreeSlot(Collect(sockets, 0)) \/ (reconnectTimers = 0 /\ debugClicks = MaxClicks)
    /\ argumentInput \in Texts
    /\ timerLabel \in {"initial", "prep", "your", "opp"}
    /\ debatePhase \in {"initial", "Preparation", "Debate", "Finished"}
    /\ Len(debateLog) <= MaxLogLen
    /\ quietLog.undecodable \in -1..MaxTurnLog
    /\ timerBar.den \in {0, PrepTotal, TurnTotal}
    /\ pingIntervals \in 0..1
    /\ timerLog.kind \in {"none", "prep", "turn"}

====
